---- MODULE Spec2Model ----
(***************************************************************************)
(* A model of the predictive-modelling engine of the Diamond Auction       *)
(* Intelligence App (web/lib/server/*.ts and the model route handlers).    *)
(*                                                                         *)
(* Specifications:                                                         *)
(*   Spec          the per-dataset loaders (module-level cache, CSV parse, *)
(*                 training) called by concurrent requests on Node's       *)
(*                 run-to-completion event loop, and the effect of every   *)
(*                 endpoint on the cached artifact.                        *)
(*   SpecOptimize  POST /optimize: body parsing, the random-search loop    *)
(*                 over both datasets, and the response.                   *)
(*   SpecSurface   POST /surface: body parsing, the variable check, the    *)
(*                 grid and the response.                                  *)
(*   SpecEncode    buildEncoder / encodeRow and train / buildFeatureVector *)
(*                 applied to encoders and records drawn from small sets.  *)
(*   SpecImportance  the importance maps of the three model kinds, from    *)
(*                 weights drawn from small sets.                          *)
(*   SpecIngest    the row filters of the two loaders, applied to CSV      *)
(*                 lines drawn from small sets.                            *)
(*   SpecPredict   POST /predict and POST /predict-single: body            *)
(*                 validation, dataset dispatch and the prediction.        *)
(*   SpecMetrics   priceMetrics and r2Mae on small integer vectors.        *)
(*   SpecSolve     solve in exact arithmetic on small linear systems.      *)
(*   SpecPermutation  permutationImportanceRF: the row sample, the column  *)
(*                 shuffles and the normalisation.                         *)
(***************************************************************************)
EXTENDS Integers, Sequences, FiniteSets, TLC

(***************************************************************************)
(* Bounds of the model.                                                    *)
(***************************************************************************)
NumRequests == 2

(***************************************************************************)
(* JavaScript numbers: finite values are integers here; NaN and -Infinity  *)
(* are kept apart because the code's comparisons treat them specially.     *)
(***************************************************************************)
NaN == [k |-> "nan", v |-> 0]
NegInf == [k |-> "ninf", v |-> 0]
Num(n) == [k |-> "num", v |-> n]
IsFinite(x) == x.k = "num"

\* a < b and a > b of JavaScript: false whenever either side is NaN
JsLt(a, b) ==
    CASE a.k = "nan" \/ b.k = "nan" -> FALSE
      [] a.k = "ninf" -> b.k = "num"
      [] b.k = "ninf" -> FALSE
      [] OTHER -> a.v < b.v
JsGt(a, b) == JsLt(b, a)

\* Math.min / Math.max of two numbers: NaN if either argument is NaN
MathMin(a, b) ==
    CASE a.k = "nan" \/ b.k = "nan" -> NaN
      [] JsLt(a, b) -> a
      [] OTHER -> b
MathMax(a, b) ==
    CASE a.k = "nan" \/ b.k = "nan" -> NaN
      [] JsGt(a, b) -> a
      [] OTHER -> b

SeqMin(s) == CHOOSE m \in {s[i] : i \in DOMAIN s} : \A i \in DOMAIN s : m <= s[i]
SeqMax(s) == CHOOSE m \in {s[i] : i \in DOMAIN s} : \A i \in DOMAIN s : m >= s[i]
RECURSIVE SeqSum(_)
SeqSum(s) == IF s = <<>> THEN 0 ELSE Head(s) + SeqSum(Tail(s))
RECURSIVE SelectSeqBy(_, _)
SelectSeqBy(s, keep) ==
    IF s = <<>> THEN <<>>
    ELSE IF Head(s) \in keep THEN <<Head(s)>> \o SelectSeqBy(Tail(s), keep)
         ELSE SelectSeqBy(Tail(s), keep)

(***************************************************************************)
(* Dataset identities (web/lib/staticDataset.ts).                          *)
(***************************************************************************)
STATIC_DATASET_ID == "synthetic-auction"
US_DIAMONDS_DATASET_ID == "us-diamonds"
Datasets == {STATIC_DATASET_ID, US_DIAMONDS_DATASET_ID}

(***************************************************************************)
(* CSV files.  A file is a header (column names) and data lines; a cell is *)
(* the text between two commas: a numeral, some other text, or empty.      *)
(***************************************************************************)
NCell(n) == [t |-> "num", n |-> n, s |-> ""]
TCell(s) == [t |-> "text", n |-> 0, s |-> s]
EmptyCell == [t |-> "empty", n |-> 0, s |-> ""]

\* toNumber(v): Number(v) when finite, else NaN.  Number('') is 0.
toNumber(c) ==
    CASE c.t = "num" -> Num(c.n)
      [] c.t = "empty" -> Num(0)
      [] OTHER -> NaN

\* String(v) of a cell's text; the numeral n is kept as the text of n
CellString(c) ==
    CASE c.t = "text" -> c.s
      [] c.t = "empty" -> ""
      [] OTHER -> "#"

\* header.indexOf(name): 0 stands for JavaScript's -1
IndexOf(header, name) ==
    IF \E i \in DOMAIN header : header[i] = name
    THEN CHOOSE i \in DOMAIN header : header[i] = name /\ \A j \in 1..(i - 1) : header[j] # name
    ELSE 0

\* parts[i] ?? '' : an index outside the line reads undefined, hence ''
PartAt(parts, i) == IF i \in DOMAIN parts THEN parts[i] ELSE EmptyCell

US_COLUMNS == <<"carat", "cut", "color", "clarity", "depth", "table", "x", "y", "z", "price">>
NUMERIC_COLS == <<"carat", "depth", "table", "x", "y", "z">>
AUCTION_COLUMNS ==
    <<"lot_id", "carat", "color", "clarity", "viewings", "price_index",
      "reserve_price", "final_price", "sold">>
AUCTION_NUMERIC == <<"carat", "viewings", "price_index">>

UsLine(carat, cut, color, clarity, depth, price) ==
    <<carat, cut, color, clarity, depth, NCell(57), NCell(4), NCell(4), NCell(2), price>>

\* public/data/US_diamonds.csv as the loader may find it
UsCsvGood ==
    [header |-> US_COLUMNS,
     lines |-> << UsLine(NCell(1), TCell("Ideal"), TCell("G"), TCell("VS1"), NCell(61), NCell(5000)),
                  UsLine(NCell(2), TCell("Premium"), TCell("E"), TCell("VS1"), NCell(62), NCell(9000)),
                  UsLine(TCell("n/a"), TCell("Ideal"), TCell("G"), TCell("SI1"), NCell(60), NCell(100)),
                  UsLine(NCell(3), EmptyCell, TCell("G"), TCell("SI1"), NCell(60), NCell(100)) >>]

\* the same file with the price column absent from the header
UsCsvNoPrice ==
    [header |-> SubSeq(US_COLUMNS, 1, 9),
     lines |-> << SubSeq(UsCsvGood.lines[1], 1, 9), SubSeq(UsCsvGood.lines[2], 1, 9) >>]

AuctionLine(lot, carat, color, clarity, viewings, final, sold) ==
    <<lot, carat, color, clarity, viewings, NCell(100), NCell(4000), final, sold>>

\* public/data/synthetic_auction_data.csv as the loader may find it
AuctionCsvGood ==
    [header |-> AUCTION_COLUMNS,
     lines |-> << AuctionLine(TCell("L1"), NCell(1), TCell("G"), TCell("VS1"), NCell(10), NCell(5000), NCell(1)),
                  AuctionLine(TCell("L2"), NCell(2), TCell("D"), TCell("VS1"), NCell(30), NCell(9000), NCell(0)),
                  AuctionLine(EmptyCell, NCell(2), TCell("D"), TCell("VS1"), NCell(30), NCell(9000), NCell(0)),
                  AuctionLine(TCell("L4"), NCell(2), TCell("D"), TCell("VS1"), TCell("many"), NCell(9000), NCell(0)) >>]

CsvChoices(d) ==
    IF d = US_DIAMONDS_DATASET_ID THEN {UsCsvGood, UsCsvNoPrice} ELSE {AuctionCsvGood}

(***************************************************************************)
(* Row ingestion.                                                          *)
(***************************************************************************)
\* usDiamonds.ts: the first required column idxOrThrow does not find
UsMissingColumn(header) ==
    LET missing == {i \in DOMAIN US_COLUMNS : IndexOf(header, US_COLUMNS[i]) = 0}
    IN IF missing = {} THEN "" ELSE US_COLUMNS[CHOOSE i \in missing : \A j \in missing : i <= j]

UsRowOf(header, parts) ==
    [carat |-> toNumber(PartAt(parts, IndexOf(header, "carat"))),
     cut |-> CellString(PartAt(parts, IndexOf(header, "cut"))),
     color |-> CellString(PartAt(parts, IndexOf(header, "color"))),
     clarity |-> CellString(PartAt(parts, IndexOf(header, "clarity"))),
     depth |-> toNumber(PartAt(parts, IndexOf(header, "depth"))),
     table |-> toNumber(PartAt(parts, IndexOf(header, "table"))),
     x |-> toNumber(PartAt(parts, IndexOf(header, "x"))),
     y |-> toNumber(PartAt(parts, IndexOf(header, "y"))),
     z |-> toNumber(PartAt(parts, IndexOf(header, "z"))),
     price |-> toNumber(PartAt(parts, IndexOf(header, "price")))]

UsRowKept(r) ==
    /\ IsFinite(r.carat) /\ IsFinite(r.price)
    /\ r.cut # "" /\ r.color # "" /\ r.clarity # ""

\* loadTrainedUSDiamonds, the parse loop: throws on the first data line when a
\* required column is missing, else keeps the lines that pass the row filter
ParseUSDiamonds(csv) ==
    LET all == [i \in DOMAIN csv.lines |-> UsRowOf(csv.header, csv.lines[i])]
        threw == csv.lines # <<>> /\ UsMissingColumn(csv.header) # ""
    IN [threw |-> threw,
        message |-> IF threw THEN "US_diamonds.csv missing column" ELSE "",
        rows |-> IF threw THEN <<>> ELSE SelectSeqBy(all, {r \in {all[i] : i \in DOMAIN all} : UsRowKept(r)})]

AuctionRowOf(header, parts) ==
    [lot_id |-> CellString(PartAt(parts, IndexOf(header, "lot_id"))),
     carat |-> toNumber(PartAt(parts, IndexOf(header, "carat"))),
     color |-> CellString(PartAt(parts, IndexOf(header, "color"))),
     clarity |-> CellString(PartAt(parts, IndexOf(header, "clarity"))),
     viewings |-> toNumber(PartAt(parts, IndexOf(header, "viewings"))),
     price_index |-> toNumber(PartAt(parts, IndexOf(header, "price_index"))),
     reserve_price |-> toNumber(PartAt(parts, IndexOf(header, "reserve_price"))),
     final_price |-> toNumber(PartAt(parts, IndexOf(header, "final_price"))),
     sold |-> toNumber(PartAt(parts, IndexOf(header, "sold")))]

AuctionRowKept(r) ==
    /\ r.lot_id # ""
    /\ IsFinite(r.carat) /\ IsFinite(r.viewings) /\ IsFinite(r.price_index)
    /\ IsFinite(r.final_price) /\ IsFinite(r.sold)

\* loadTrainedSyntheticAuction, the parse loop: it never throws
ParseSyntheticAuction(csv) ==
    LET all == [i \in DOMAIN csv.lines |-> AuctionRowOf(csv.header, csv.lines[i])]
    IN [threw |-> FALSE,
        message |-> "",
        rows |-> SelectSeqBy(all, {r \in {all[i] : i \in DOMAIN all} : AuctionRowKept(r)})]

(***************************************************************************)
(* Training.  Statistics are exact: a mean is the pair (sum, count) and a  *)
(* standard deviation is its variance n*sum(x^2) - sum(x)^2 over n^2       *)
(* together with the floor "s > 1e-8 ? s : 1", which over integers applies *)
(* exactly when the variance is zero.  A fitted coefficient vector is a    *)
(* deterministic function of the training matrix and target; the loader    *)
(* model records which rows and target it was fitted on.                   *)
(***************************************************************************)
\* the code-unit order Array.prototype.sort() puts the level strings in
StrOrder ==
    <<"D", "E", "G", "Good", "Ideal", "Premium", "SI1", "VS1", "VS2">>
Rank(s) == IF \E i \in DOMAIN StrOrder : StrOrder[i] = s
           THEN CHOOSE i \in DOMAIN StrOrder : StrOrder[i] = s
           ELSE Len(StrOrder) + 1

\* Array.from(new Set(values)).sort()
SortedLevels(values) == SelectSeqBy(StrOrder, {values[i] : i \in DOMAIN values})

FiniteValues(rows, col) ==
    LET idx == {i \in DOMAIN rows : IsFinite(rows[i][col])}
        pick == SelectSeqBy([i \in DOMAIN rows |-> i], idx)
    IN [i \in DOMAIN pick |-> rows[pick[i]][col].v]

mean(arr) == [sum |-> SeqSum(arr), n |-> IF Len(arr) > 1 THEN Len(arr) ELSE 1]

std(arr) ==
    LET n == IF Len(arr) > 1 THEN Len(arr) ELSE 1
        sq == n * SeqSum([i \in DOMAIN arr |-> arr[i] * arr[i]]) - SeqSum(arr) * SeqSum(arr)
    IN [var |-> sq, den |-> n * n, floored |-> sq = 0]

\* Math.min(...arr), Math.max(...arr); of an empty array +Infinity, -Infinity
RangeOf(arr) ==
    IF arr = <<>> THEN [empty |-> TRUE, min |-> 0, max |-> 0]
    ELSE [empty |-> FALSE, min |-> SeqMin(arr), max |-> SeqMax(arr)]

\* sampleRows that steps by n / arr.length
sampleRowsSquashed(arr, n) ==
    IF Len(arr) <= n THEN arr
    ELSE [i \in 1..n |-> arr[((i - 1) * n) \div Len(arr) + 1]]

\* sampleRows(arr, n)
sampleRows(arr, n) ==
    IF Len(arr) <= n THEN arr
    ELSE [i \in 1..n |-> arr[((i - 1) * Len(arr)) \div n + 1]]

TRAIN_SAMPLE == 15000

buildEncoder(rows) ==
    [built |-> TRUE,
     levels |-> [cut |-> SortedLevels([i \in DOMAIN rows |-> rows[i].cut]),
                 color |-> SortedLevels([i \in DOMAIN rows |-> rows[i].color]),
                 clarity |-> SortedLevels([i \in DOMAIN rows |-> rows[i].clarity])],
     numericMeans |-> [i \in DOMAIN NUMERIC_COLS |-> mean(FiniteValues(rows, NUMERIC_COLS[i]))],
     numericStds |-> [i \in DOMAIN NUMERIC_COLS |-> std(FiniteValues(rows, NUMERIC_COLS[i]))]]

NoEncoder == [built |-> FALSE]
NoRanges == [built |-> FALSE]

FittedModel(kind, target, nRows) ==
    [kind |-> kind, target |-> target, fittedOn |-> nRows, hasResidualStd |-> kind # "Linear"]

UsRanges(trainRows) ==
    [built |-> TRUE,
     r |-> [i \in DOMAIN NUMERIC_COLS |-> RangeOf(FiniteValues(trainRows, NUMERIC_COLS[i]))]]

\* syntheticAuction.ts train(rows): levels, statistics, both fits and the ranges
train(rows) ==
    [encoder |-> [built |-> TRUE,
                  levels |-> [color |-> SortedLevels([i \in DOMAIN rows |-> rows[i].color]),
                              clarity |-> SortedLevels([i \in DOMAIN rows |-> rows[i].clarity])],
                  numericMeans |-> [i \in DOMAIN AUCTION_NUMERIC |-> mean(FiniteValues(rows, AUCTION_NUMERIC[i]))],
                  numericStds |-> [i \in DOMAIN AUCTION_NUMERIC |-> std(FiniteValues(rows, AUCTION_NUMERIC[i]))]],
     models |-> <<FittedModel("Linear", "final_price", Len(rows)),
                  FittedModel("Linear", "sold", Len(rows))>>,
     ranges |-> [built |-> TRUE,
                 r |-> [i \in DOMAIN AUCTION_NUMERIC |-> RangeOf(FiniteValues(rows, AUCTION_NUMERIC[i]))]]]

(***************************************************************************)
(* Request bodies: the modelName field, as the characters of the string    *)
(* String(modelName ?? '') yields (a missing field gives the empty one).   *)
(***************************************************************************)
NameMissing == <<>>
NameRidge == <<"R", "i", "d", "g", "e">>
NameRandomForest == <<"R", "a", "n", "d", "o", "m", "F", "o", "r", "e", "s", "t">>
NameRandomForestSpaced == <<"r", "a", "n", "d", "o", "m", " ", "f", "o", "r", "e", "s", "t">>
NameXGBoost == <<"X", "G", "B", "o", "o", "s", "t">>
ModelNameInputs == {NameMissing, NameRidge, NameRandomForest, NameRandomForestSpaced, NameXGBoost}

UpperCase == <<"A", "B", "D", "F", "G", "M", "N", "O", "R", "S", "T", "X">>
LowerCase == <<"a", "b", "d", "f", "g", "m", "n", "o", "r", "s", "t", "x">>
ToLower(c) ==
    IF \E i \in DOMAIN UpperCase : UpperCase[i] = c
    THEN LowerCase[CHOOSE i \in DOMAIN UpperCase : UpperCase[i] = c]
    ELSE c
MatchesAt(m, at, word) ==
    /\ at + Len(word) - 1 <= Len(m)
    /\ \A i \in DOMAIN word : ToLower(m[at + i - 1]) = word[i]

\* /random\s*forest/i.test(m)
TestRandomForest(m) ==
    \E at \in 1..Len(m) : \E gap \in 0..Len(m) :
        /\ MatchesAt(m, at, <<"r", "a", "n", "d", "o", "m">>)
        /\ \A i \in 0..(gap - 1) : at + 6 + i <= Len(m) /\ m[at + 6 + i] = " "
        /\ MatchesAt(m, at + 6 + gap, <<"f", "o", "r", "e", "s", "t">>)

parseUSDiamondsModelName(m) == IF TestRandomForest(m) THEN "RandomForest" ELSE "Ridge"

(***************************************************************************)
(* The loaders and the module-level caches.                                *)
(*                                                                         *)
(* Node runs one continuation at a time: a handler runs from one await to  *)
(* the next without interleaving.  `running` is the request whose          *)
(* continuation is on the stack (0: none); only that request takes steps.  *)
(* The loaders have a single suspension point, await readFile.             *)
(***************************************************************************)
VARIABLES
    files,      \* dataset -> the CSV file on disk
    cached,     \* dataset -> the module-level `cached` (0: null, else an address in heap[d])
    heap,       \* dataset -> the artifact objects still referenced, by address
    fits,       \* dataset -> number of completed parse-and-fit runs (the last address)
    pc,         \* request -> "idle" | "awaitRead" | "loading" | "loaded"
    ds,         \* request -> the dataset its handler loads
    held,       \* request -> the artifact its loader call returned (0: none)
    running,    \* the request whose continuation is executing (0: none)
    step,       \* position of the running loader in LoaderSteps
    building,   \* the running loader's local variables
    returned,   \* dataset -> the artifacts loader calls have returned so far
    resp        \* the response sent by the last step (NoResp: none)

loaderVars ==
    <<files, cached, heap, fits, pc, ds, held, running, step, building, returned, resp>>

VARIABLES
    opt,        \* the optimize request being handled (SpecOptimize)
    surf,       \* the surface request being handled (SpecSurface)
    calc        \* a call of a pure function: its inputs and, once applied, its
                \* result (SpecEncode, SpecImportance, SpecIngest)

otherThanLoader == <<opt, surf, calc>>
vars == <<loaderVars, opt, surf, calc>>

Requests == 1..NumRequests

Fresh(d) ==
    [dataset |-> d, parsed |-> FALSE, rows |-> <<>>, encoder |-> NoEncoder,
     models |-> <<>>, ranges |-> NoRanges, rfImportance |-> 0]
NoResp ==
    [dataset |-> "", status |-> 0, message |-> "", importance |-> 0]

\* a loader that assigns `cached` before the feature ranges are computed
LoaderStepsEarlyPublish(d) ==
    IF d = US_DIAMONDS_DATASET_ID
    THEN <<"parse", "encode", "ridge", "rf", "publish", "ranges">>
    ELSE <<"parse", "publish", "train">>

\* the statements of a loader between `await readFile` and `return cached`
LoaderSteps(d) ==
    IF d = US_DIAMONDS_DATASET_ID
    THEN <<"parse", "encode", "ridge", "rf", "ranges", "publish">>
    ELSE <<"parse", "train", "publish">>

\* number of completed parse-and-fit runs for a dataset
FitCount(d) == fits[d]

\* An object nothing references any more is gone: the heap keeps the artifacts
\* a cache or a handler's `trained` variable still points to.
Collect(h, c, hl, dd) ==
    [d \in Datasets |->
        LET live == ({c[d]} \cup {hl[r] : r \in {q \in Requests : dd[q] = d}}) \ {0}
        IN [a \in (DOMAIN h[d]) \cap live |-> h[d][a]]]

\* the object literal of `cached = {...}`: a new object at a new address
Allocate(h, d, a, obj) ==
    [h EXCEPT ![d] = [x \in (DOMAIN h[d]) \cup {a} |-> IF x = a THEN obj ELSE h[d][x]]]

LoaderInit ==
    /\ files \in [Datasets -> UNION {CsvChoices(d) : d \in Datasets}]
    /\ \A d \in Datasets : files[d] \in CsvChoices(d)
    /\ cached = [d \in Datasets |-> 0]
    /\ heap = [d \in Datasets |-> [a \in {} |-> Fresh(d)]]
    /\ fits = [d \in Datasets |-> 0]
    /\ pc = [r \in Requests |-> "idle"]
    /\ ds = [r \in Requests |-> STATIC_DATASET_ID]
    /\ held = [r \in Requests |-> 0]
    /\ running = 0
    /\ step = 0
    /\ building = Fresh(STATIC_DATASET_ID)
    /\ returned = [d \in Datasets |-> {}]
    /\ resp = NoResp

\* a handler calls its loader: `if (cached) return cached;` else suspend in readFile
LoadCall(r, d) ==
    /\ running = 0 /\ pc[r] = "idle"
    /\ ds' = [ds EXCEPT ![r] = d]
    /\ IF cached[d] # 0
       THEN /\ held' = [held EXCEPT ![r] = cached[d]]
            /\ pc' = [pc EXCEPT ![r] = "loaded"]
            /\ returned' = [returned EXCEPT ![d] = @ \cup {cached[d]}]
       ELSE /\ pc' = [pc EXCEPT ![r] = "awaitRead"]
            /\ UNCHANGED <<held, returned>>
    /\ resp' = NoResp
    /\ UNCHANGED <<files, cached, heap, fits, running, step, building>>
    /\ UNCHANGED otherThanLoader

\* readFile rejects: the loader throws and the handler's catch answers 500
ReadReject(r) ==
    /\ running = 0 /\ pc[r] = "awaitRead"
    /\ pc' = [pc EXCEPT ![r] = "idle"]
    /\ ds' = [ds EXCEPT ![r] = STATIC_DATASET_ID]
    /\ resp' = [NoResp EXCEPT !.dataset = ds[r], !.status = 500,
                              !.message = "ENOENT"]
    /\ UNCHANGED <<files, cached, heap, fits, held, running, step, building, returned>>
    /\ UNCHANGED otherThanLoader

\* readFile resolves: the loader's continuation starts running
ReadResolve(r) ==
    /\ running = 0 /\ pc[r] = "awaitRead"
    /\ running' = r
    /\ step' = 1
    /\ building' = Fresh(ds[r])
    /\ pc' = [pc EXCEPT ![r] = "loading"]
    /\ resp' = NoResp
    /\ UNCHANGED <<files, cached, heap, fits, ds, held, returned>>
    /\ UNCHANGED otherThanLoader

TrainRows(b) == sampleRows(b.rows, TRAIN_SAMPLE)

\* a loader whose parse loop goes on when a column is missing
ParseNeverThrows(p) == FALSE

\* `throw new Error(...)` of idxOrThrow leaves the loop and the loader
ParseThrows(p) == p.threw

\* one statement group of the running loader
LoadStep(r) ==
    /\ running = r /\ pc[r] = "loading"
    /\ LET d == ds[r]
           name == LoaderSteps(d)[step]
           p == IF d = US_DIAMONDS_DATASET_ID THEN ParseUSDiamonds(files[d])
                ELSE ParseSyntheticAuction(files[d])
           t == train(building.rows)
       IN CASE name = "parse" /\ ParseThrows(p) ->
                 /\ running' = 0 /\ step' = 0
                 /\ pc' = [pc EXCEPT ![r] = "idle"]
                 /\ ds' = [ds EXCEPT ![r] = STATIC_DATASET_ID]
                 /\ resp' = [NoResp EXCEPT !.dataset = d, !.status = 500,
                                           !.message = p.message]
                 /\ building' = Fresh(STATIC_DATASET_ID)
                 /\ UNCHANGED <<cached, heap, fits, held, returned>>
            [] name = "parse" /\ ~ParseThrows(p) ->
                 /\ building' = [building EXCEPT !.parsed = TRUE, !.rows = p.rows]
                 /\ step' = step + 1
                 /\ resp' = NoResp
                 /\ UNCHANGED <<cached, heap, fits, pc, ds, held, running, returned>>
            [] name = "encode" ->
                 /\ building' = [building EXCEPT !.encoder = buildEncoder(TrainRows(building))]
                 /\ step' = step + 1
                 /\ resp' = NoResp
                 /\ UNCHANGED <<cached, heap, fits, pc, ds, held, running, returned>>
            [] name = "ridge" ->
                 /\ building' = [building EXCEPT !.models =
                        Append(@, FittedModel("Ridge", "price", Len(TrainRows(building))))]
                 /\ step' = step + 1
                 /\ resp' = NoResp
                 /\ UNCHANGED <<cached, heap, fits, pc, ds, held, running, returned>>
            [] name = "rf" ->
                 /\ building' = [building EXCEPT !.models =
                        Append(@, FittedModel("RandomForest", "price", Len(TrainRows(building))))]
                 /\ step' = step + 1
                 /\ resp' = NoResp
                 /\ UNCHANGED <<cached, heap, fits, pc, ds, held, running, returned>>
            [] name = "ranges" ->
                 /\ building' = [building EXCEPT !.ranges = UsRanges(TrainRows(building))]
                 /\ step' = step + 1
                 /\ resp' = NoResp
                 /\ UNCHANGED <<cached, heap, fits, pc, ds, held, running, returned>>
            [] name = "train" ->
                 /\ building' = [building EXCEPT !.encoder = t.encoder, !.models = t.models,
                                                 !.ranges = t.ranges]
                 /\ step' = step + 1
                 /\ resp' = NoResp
                 /\ UNCHANGED <<cached, heap, fits, pc, ds, held, running, returned>>
            [] name = "publish" ->
                 /\ fits' = [fits EXCEPT ![d] = @ + 1]
                 /\ cached' = [cached EXCEPT ![d] = fits[d] + 1]
                 /\ held' = [held EXCEPT ![r] = fits[d] + 1]
                 /\ heap' = Collect(Allocate(heap, d, fits[d] + 1, building), cached', held', ds)
                 /\ returned' = [returned EXCEPT ![d] = @ \cup {fits[d] + 1}]
                 /\ pc' = [pc EXCEPT ![r] = "loaded"]
                 /\ running' = 0 /\ step' = 0
                 /\ building' = Fresh(STATIC_DATASET_ID)
                 /\ resp' = NoResp
                 /\ UNCHANGED ds
    /\ UNCHANGED files
    /\ UNCHANGED otherThanLoader

(***************************************************************************)
(* The endpoints, as far as the shared artifact is concerned.  Each runs   *)
(* synchronously from the loader's return to its response.  What a handler *)
(* reads from the request body is not observable before this point, so the *)
(* body is chosen here: whether its inputs are valid, and for the          *)
(* importance endpoint, the only one whose effect on the artifact depends  *)
(* on it, the model name.  The computations of optimize and surface are    *)
(* modelled in SpecOptimize and SpecSurface.                               *)
(***************************************************************************)
NumShuffleOutcomes == 2

Answer(r, status, message, importance) ==
    [dataset |-> ds[r], status |-> status, message |-> message, importance |-> importance]

\* the model a handler serves a us-diamonds request with; synthetic handlers
\* never read modelName
ModelFor(d, name) == IF d = US_DIAMONDS_DATASET_ID THEN parseUSDiamondsModelName(name) ELSE "Linear"

Finish(r) ==
    /\ pc' = [pc EXCEPT ![r] = "idle"]
    /\ held' = [held EXCEPT ![r] = 0]
    /\ ds' = [ds EXCEPT ![r] = STATIC_DATASET_ID]
    /\ UNCHANGED <<files, cached, fits, running, step, building, returned>>
    /\ UNCHANGED otherThanLoader

\* POST /predict: predictions for every row of the artifact
ServePredict(r) ==
    /\ running = 0 /\ pc[r] = "loaded"
    /\ Finish(r)
    /\ resp' = Answer(r, 200, "", 0)
    /\ heap' = Collect(heap, cached, held', ds')

\* POST /predict-single
ServePredictSingle(r, valid) ==
    /\ running = 0 /\ pc[r] = "loaded"
    /\ Finish(r)
    /\ resp' = IF valid
               THEN Answer(r, 200, "", 0)
               ELSE Answer(r, 400, "Invalid inputs", 0)
    /\ heap' = Collect(heap, cached, held', ds')

\* POST /optimize
ServeOptimize(r) ==
    /\ running = 0 /\ pc[r] = "loaded"
    /\ Finish(r)
    /\ resp' = Answer(r, 200, "", 0)
    /\ heap' = Collect(heap, cached, held', ds')

\* POST /surface
ServeSurface(r, valid) ==
    /\ running = 0 /\ pc[r] = "loaded"
    /\ Finish(r)
    /\ resp' = IF valid
               THEN Answer(r, 200, "", 0)
               ELSE Answer(r, 400, "Invalid surface variables", 0)
    /\ heap' = Collect(heap, cached, held', ds')

\* a handler that recomputes the permutation importance on every request
ImportanceNeverMemoized(a) == FALSE

\* getUSDiamondsImportance: `if (!trained.rf.importance)` guards the lazy computation
ImportanceIsMemoized(a) == a.rfImportance # 0

\* POST /shap: coefficient importance, or for the random forest the permutation
\* importance, computed on first use (outcome k of the random shuffles) and
\* stored on the artifact's rf model
ServeImportance(r, name) ==
    /\ running = 0 /\ pc[r] = "loaded"
    /\ Finish(r)
    /\ LET a == held[r]
           trained == heap[ds[r]][a]
           model == ModelFor(ds[r], name)
       IN IF model = "RandomForest"
          THEN IF ImportanceIsMemoized(trained)
               THEN /\ resp' = Answer(r, 200, "", trained.rfImportance)
                    /\ heap' = Collect(heap, cached, held', ds')
               ELSE \E k \in 1..NumShuffleOutcomes :
                      /\ heap' = Collect([heap EXCEPT ![ds[r]][a].rfImportance = k],
                                         cached, held', ds')
                      /\ resp' = Answer(r, 200, "", k)
          ELSE /\ resp' = Answer(r, 200, "", 0)
               /\ heap' = Collect(heap, cached, held', ds')

\* the modelName values a handler can read: one per model of the US dataset; the
\* synthetic handlers read none
NamesRead(r) ==
    IF ds[r] = US_DIAMONDS_DATASET_ID THEN {NameMissing, NameRandomForestSpaced} ELSE {NameMissing}

LoaderNext ==
    \E r \in Requests :
        \/ \E d \in Datasets : LoadCall(r, d)
        \/ ReadReject(r)
        \/ ReadResolve(r)
        \/ LoadStep(r)
        \/ ServePredict(r)
        \/ \E valid \in BOOLEAN : ServePredictSingle(r, valid)
        \/ ServeOptimize(r)
        \/ \E valid \in BOOLEAN : ServeSurface(r, valid)
        \/ \E name \in NamesRead(r) : ServeImportance(r, name)

Init ==
    /\ LoaderInit
    /\ opt = [phase |-> "off"]
    /\ surf = [phase |-> "off"]
    /\ calc = [phase |-> "off"]

Next == LoaderNext

Spec == Init /\ [][Next]_vars

(***************************************************************************)
(* Claims about the loaders and the cache (checked under Spec).            *)
(***************************************************************************)
Artifacts(d) == {heap[d][a] : a \in DOMAIN heap[d]}

\* every part a loader computes is present
Complete(a) ==
    /\ a.parsed
    /\ a.encoder.built
    /\ Len(a.models) = 2
    /\ a.ranges.built

\* the artifacts requests can observe: the caches' and those loaders returned
Observable(d) ==
    {heap[d][a] : a \in ({cached[d]} \cup {held[r] : r \in {q \in Requests : ds[q] = d}}) \ {0}}

\* C1: for each dataset at most one loader call performs the CSV parse and the
\* model fit, however many requests call the loader while the cache is empty.
C1_SingleFlight == \A d \in Datasets : FitCount(d) <= 1

\* C2: all loader calls for a dataset return the same artifact: once one has
\* returned an artifact, no later call returns a different one.
C2_SameArtifact == \A d \in Datasets : Cardinality(returned[d]) <= 1

Dot(x, beta) == SeqSum([i \in DOMAIN x |-> x[i] * beta[i]])
\* an encoding that leaves out the flags of a field whose value is unseen
OneHotSeenOnly(levels, value) ==
    IF \E i \in DOMAIN levels : levels[i] = value
    THEN [i \in DOMAIN levels |-> IF value = levels[i] THEN 1 ELSE 0]
    ELSE <<>>

\* an encoding that files an unseen value under the first level
OneHotFallback(levels, value) ==
    IF \E i \in DOMAIN levels : levels[i] = value
    THEN [i \in DOMAIN levels |-> IF value = levels[i] THEN 1 ELSE 0]
    ELSE [i \in DOMAIN levels |-> IF i = 1 THEN 1 ELSE 0]

\* `for (const c of levels) v.push(value === c ? 1 : 0)`
OneHot(levels, value) == [i \in DOMAIN levels |-> IF value = levels[i] THEN 1 ELSE 0]

\* usDiamonds.ts encodeRow
encodeRow(row, enc) ==
    <<1>>
    \o [i \in DOMAIN NUMERIC_COLS |->
          (row[NUMERIC_COLS[i]] - enc.numericMeans[NUMERIC_COLS[i]]) \div enc.numericStds[NUMERIC_COLS[i]]]
    \o OneHot(enc.cutLevels, row.cut)
    \o OneHot(enc.colorLevels, row.color)
    \o OneHot(enc.clarityLevels, row.clarity)

\* syntheticAuction.ts buildFeatureVector
buildFeatureVector(input, model) ==
    <<1,
      (input.carat - model.numericMeans.carat) \div model.numericStds.carat,
      (input.viewings - model.numericMeans.viewings) \div model.numericStds.viewings,
      (input.price_index - model.numericMeans.price_index) \div model.numericStds.price_index>>
    \o OneHot(model.colorLevels, input.color)
    \o OneHot(model.clarityLevels, input.clarity)

predictPrice(model, input) == Dot(buildFeatureVector(input, model), model.beta)

\* 1 / (1 + exp(-z)) as a percentage, on integer z
sigmoid(z) ==
    CASE z <= -3 -> 5
      [] z = -2 -> 12
      [] z = -1 -> 27
      [] z = 0 -> 50
      [] z = 1 -> 73
      [] z = 2 -> 88
      [] OTHER -> 95

\* clamp01 on percentages
clamp01(x) == IF x < 0 THEN 0 ELSE IF x > 100 THEN 100 ELSE x

predictSaleProba(model, input) == clamp01(sigmoid(Dot(buildFeatureVector(input, model), model.beta)))

predictRidge(model, row) == Dot(encodeRow(row, model.encoder), model.beta)

\* rf.predict of the ml-random-forest collaborator: any regressor over the
\* encoded vector; here a depth-one tree on the carat feature
RfPredict(rf, x) == IF x[2] < rf.split THEN rf.left ELSE rf.right

\* predictUSDiamonds: the point estimate; anything but 'RandomForest' is served by ridge
predictUSDiamondsPrice(trained, model, input) ==
    IF model = "RandomForest"
    THEN RfPredict(trained.rf.rf, encodeRow(input, trained.encoder))
    ELSE predictRidge(trained.ridge, input)

(***************************************************************************)
(* Trained artifacts the optimizer and the surface generator run against.  *)
(***************************************************************************)
UsEncoder ==
    [cutLevels |-> <<"Ideal", "Premium">>,
     colorLevels |-> <<"E", "G">>,
     clarityLevels |-> <<"SI1", "VS1">>,
     numericMeans |-> [carat |-> 2, depth |-> 61, table |-> 57, x |-> 4, y |-> 4, z |-> 2],
     numericStds |-> [carat |-> 1, depth |-> 1, table |-> 1, x |-> 1, y |-> 1, z |-> 1],
     featureNames |-> <<"intercept", "carat", "depth", "table", "x", "y", "z",
                        "cut:Ideal", "cut:Premium", "color:E", "color:G",
                        "clarity:SI1", "clarity:VS1">>]

UsTrained ==
    [encoder |-> UsEncoder,
     ridge |-> [kind |-> "Ridge", encoder |-> UsEncoder,
                beta |-> <<7000, 2000, -100, 0, 0, 0, 0, 50, 0, 0, 100, -200, 0>>,
                residualStd |-> 300],
     rf |-> [kind |-> "RandomForest", encoder |-> UsEncoder,
             rf |-> [split |-> 0, left |-> 5200, right |-> 8800],
             residualStd |-> 200],
     ranges |-> [carat |-> [min |-> 1, max |-> 3], depth |-> [min |-> 60, max |-> 62],
                 table |-> [min |-> 57, max |-> 57], x |-> [min |-> 4, max |-> 4],
                 y |-> [min |-> 4, max |-> 4], z |-> [min |-> 2, max |-> 2]]]

AuctionStats(beta) ==
    [features |-> <<"intercept", "carat", "viewings", "price_index",
                    "color:D", "color:G", "clarity:VS1">>,
     beta |-> beta,
     numericMeans |-> [carat |-> 2, viewings |-> 20, price_index |-> 100],
     numericStds |-> [carat |-> 1, viewings |-> 10, price_index |-> 1],
     colorLevels |-> <<"D", "G">>,
     clarityLevels |-> <<"VS1">>]

AuctionTrained ==
    [priceModel |-> AuctionStats(<<7000, 2000, 100, 0, 300, 0, 0>>),
     saleModel |-> AuctionStats(<<0, 1, 1, 0, 0, 0, 0>>),
     ranges |-> [carat |-> [min |-> 1, max |-> 3],
                 viewings |-> [min |-> 10, max |-> 30],
                 price_index |-> [min |-> 100, max |-> 100]]]

(***************************************************************************)
(* POST /optimize (SpecOptimize).                                          *)
(*                                                                         *)
(* A body field is missing, a number or a string.  n_samples is counted in *)
(* halves (101 is 50.5) so that fractional requests exist; probabilities   *)
(* are percentages (101 is 1.01).                                          *)
(***************************************************************************)
RandomGrid == 2

Missing == [t |-> "missing", n |-> 0, s |-> ""]
NumField(n) == [t |-> "num", n |-> n, s |-> ""]
StrField(s) == [t |-> "str", n |-> 0, s |-> s]

\* Number(field ?? dflt); a string that is no numeral gives NaN
NumberOr(field, dflt) ==
    CASE field.t \in {"missing", "null"} -> Num(dflt)
      [] field.t = "num" -> Num(field.n)
      [] OTHER -> NaN
\* String(field ?? dflt)
StringOr(field, dflt) ==
    CASE field.t \in {"missing", "null"} -> dflt
      [] field.t = "str" -> field.s
      [] OTHER -> "#"

MIN_SAMPLES == 50
MAX_SAMPLES == 5000
DEFAULT_SAMPLES == 1000
DEFAULT_MIN_PROB == 50
DEFAULT_TARGET_PRICE == 5000
DEFAULT_TARGET_PROB == 80

\* Math.max(50, Math.min(5000, nSamples)), in halves
ClampSamples(nSamples) == MathMax(Num(2 * MIN_SAMPLES), MathMin(Num(2 * MAX_SAMPLES), nSamples))

\* the loop condition i < Math.max(50, Math.min(5000, nSamples))
MoreTrials(i, nSamples) == JsLt(Num(2 * i), ClampSamples(nSamples))

\* randBetween(min, max) with Math.random() one of 0/G, 1/G, ..., (G-1)/G
randBetween(min, max) == {min + (k * (max - min)) \div RandomGrid : k \in 0..(RandomGrid - 1)}

NoBest == [found |-> FALSE]
Abs(v) == IF v < 0 THEN -v ELSE v

\* pred_price / Math.max(carat, 1e-6)
PerCarat(price, carat) == IF carat >= 1 THEN price \div carat ELSE price * 1000000

\* the score of a us-diamonds trial; an objective outside the three leaves -Infinity
UsScore(objective, pred_price, carat, targetPrice) ==
    CASE objective = "max_price" -> Num(pred_price)
      [] objective = "max_prob" -> Num(PerCarat(pred_price, carat))
      [] objective = "target" -> Num(-Abs(pred_price - targetPrice))
      [] OTHER -> NegInf

\* an optimizer that applies no minimum-probability constraint
SkipsNoTrial(objective, pred_prob, minProb) == FALSE

\* an optimizer that compares with the default 0.5 whatever the request says
SkipsBelowDefault(objective, pred_prob, minProb) ==
    objective = "max_price" /\ JsLt(Num(pred_prob), Num(50))

\* `if (pred_prob < minProb) continue;` of the max_price objective
SkipsTrial(objective, pred_prob, minProb) ==
    objective = "max_price" /\ JsLt(Num(pred_prob), minProb)

\* the score of a synthetic-auction trial that is not skipped
AuctionScore(objective, pred_price, pred_prob, targetPrice, targetProb) ==
    CASE objective = "max_price" -> Num(pred_price)
      [] objective = "max_prob" -> Num(pred_prob)
      [] objective = "target" ->
           Num(-((Abs(pred_price - targetPrice) * 100)
                    \div (IF targetPrice > 1 THEN targetPrice ELSE 1)
                 + Abs(pred_prob - targetProb)))
      [] OTHER -> NegInf

OptDatasetIds == {"", US_DIAMONDS_DATASET_ID, STATIC_DATASET_ID, "uploaded-1"}
OptObjectives == {Missing, StrField("max_price"), StrField("max_prob"), StrField("target"),
                  StrField("min_price")}
\* 10, 50.5 and a string that is no numeral; absent (1000) and 6000
OptSamples == {NumField(20), NumField(101), StrField("many")}
OptLongSamples == {Missing, NumField(12000)}
OptMinProbs == {Missing, NumField(0), NumField(101)}
OptModelNames == {NameMissing, NameRandomForest}

\* the request bodies: every combination with a short run, and the long runs
\* (1000 and 5000 trials) with the other fields absent
OptBodies ==
    [datasetId : OptDatasetIds, objective : OptObjectives, n_samples : OptSamples,
     min_prob : OptMinProbs, modelName : OptModelNames]
    \cup [datasetId : OptDatasetIds, objective : {Missing}, n_samples : OptLongSamples,
          min_prob : {Missing}, modelName : {NameMissing}]

OptIdle == [phase |-> "idle"]

\* History of a run, kept beside the handler's locals and read by no action:
\* the first trial, among those the constraint does not skip, whose score is
\* the greatest so far.  Scores are compared as numbers; -Infinity is never
\* a greatest score.
FirstMax(first, skipped, candidate) ==
    IF skipped \/ candidate.objective_score.k # "num" THEN first
    ELSE IF ~first.found THEN candidate
    ELSE IF candidate.objective_score.v > first.objective_score.v THEN candidate
    ELSE first
OptDone(status, success, message, o) ==
    [phase |-> "done", status |-> status, success |-> success, message |-> message,
     dataset |-> o.dataset, objective |-> o.objective, nSamples |-> o.nSamples,
     minProb |-> o.minProb, model |-> o.model, i |-> o.i, best |-> o.best,
     firstMax |-> o.firstMax]

\* the handler up to the first trial: body parsing and the dataset branches
OptPost(body) ==
    /\ opt.phase = "idle"
    /\ LET datasetId == body.datasetId
           parsed == [dataset |-> datasetId,
                      objective |-> StringOr(body.objective, "max_price"),
                      nSamples |-> NumberOr(body.n_samples, 2 * DEFAULT_SAMPLES),
                      minProb |-> NumberOr(body.min_prob, DEFAULT_MIN_PROB),
                      model |-> IF datasetId = US_DIAMONDS_DATASET_ID
                                THEN parseUSDiamondsModelName(body.modelName) ELSE "Linear",
                      i |-> 0, best |-> NoBest, firstMax |-> NoBest]
       IN opt' = CASE datasetId = "" ->
                        OptDone(400, FALSE, "datasetId is required", parsed)
                   [] datasetId # US_DIAMONDS_DATASET_ID /\ datasetId # STATIC_DATASET_ID ->
                        OptDone(400, FALSE, "Unknown datasetId", parsed)
                   [] OTHER ->
                        [phase |-> "loop", bestScore |-> NegInf] @@ parsed
    /\ UNCHANGED <<loaderVars, surf, calc>>

\* a running maximum that a later trial of equal score displaces
ImprovesOrTies(score, bestScore) == ~JsLt(score, bestScore)

\* `if (score > bestScore)`
Improves(score, bestScore) == JsGt(score, bestScore)

UsCandidate(carat, depth, table, x, y, z, pred_price, score) ==
    [found |-> TRUE, carat |-> carat, depth |-> depth, table |-> table, x |-> x, y |-> y,
     z |-> z, viewings |-> 0, price_index |-> 0, pred_price |-> pred_price, pred_prob |-> -1,
     objective_score |-> score]
AuctionCandidate(carat, viewings, price_index, pred_price, pred_prob, score) ==
    [found |-> TRUE, carat |-> carat, depth |-> 0, table |-> 0, x |-> 0, y |-> 0,
     z |-> 0, viewings |-> viewings, price_index |-> price_index, pred_price |-> pred_price,
     pred_prob |-> pred_prob, objective_score |-> score]

\* one iteration of the us-diamonds loop
OptTrialUs ==
    /\ opt.phase = "loop" /\ opt.dataset = US_DIAMONDS_DATASET_ID
    /\ MoreTrials(opt.i, opt.nSamples)
    /\ \E carat \in randBetween(UsTrained.ranges.carat.min, UsTrained.ranges.carat.max),
          depth \in randBetween(UsTrained.ranges.depth.min, UsTrained.ranges.depth.max),
          table \in randBetween(UsTrained.ranges.table.min, UsTrained.ranges.table.max),
          x \in randBetween(UsTrained.ranges.x.min, UsTrained.ranges.x.max),
          y \in randBetween(UsTrained.ranges.y.min, UsTrained.ranges.y.max),
          z \in randBetween(UsTrained.ranges.z.min, UsTrained.ranges.z.max) :
          LET pred_price == predictUSDiamondsPrice(UsTrained, opt.model,
                                [carat |-> carat, cut |-> "Ideal", color |-> "G",
                                 clarity |-> "VS1", depth |-> depth, table |-> table,
                                 x |-> x, y |-> y, z |-> z])
              score == UsScore(opt.objective, pred_price, carat, DEFAULT_TARGET_PRICE)
              candidate == UsCandidate(carat, depth, table, x, y, z, pred_price, score)
              first == FirstMax(opt.firstMax, FALSE, candidate)
          IN opt' = IF Improves(score, opt.bestScore)
                    THEN [opt EXCEPT !.i = @ + 1, !.bestScore = score, !.best = candidate,
                                     !.firstMax = first]
                    ELSE [opt EXCEPT !.i = @ + 1, !.firstMax = first]
    /\ UNCHANGED <<loaderVars, surf, calc>>

\* one iteration of the synthetic-auction loop
OptTrialAuction ==
    /\ opt.phase = "loop" /\ opt.dataset = STATIC_DATASET_ID
    /\ MoreTrials(opt.i, opt.nSamples)
    /\ \E carat \in randBetween(AuctionTrained.ranges.carat.min, AuctionTrained.ranges.carat.max),
          viewings \in randBetween(AuctionTrained.ranges.viewings.min, AuctionTrained.ranges.viewings.max),
          price_index \in randBetween(AuctionTrained.ranges.price_index.min,
                                      AuctionTrained.ranges.price_index.max) :
          LET input == [carat |-> carat, viewings |-> viewings, price_index |-> price_index,
                        color |-> "G", clarity |-> "VS1"]
              pred_price == predictPrice(AuctionTrained.priceModel, input)
              pred_prob == predictSaleProba(AuctionTrained.saleModel, input)
              score == AuctionScore(opt.objective, pred_price, pred_prob,
                                    DEFAULT_TARGET_PRICE, DEFAULT_TARGET_PROB)
              skipped == SkipsTrial(opt.objective, pred_prob, opt.minProb)
              candidate == AuctionCandidate(carat, viewings, price_index, pred_price,
                                            pred_prob, score)
              first == FirstMax(opt.firstMax, skipped, candidate)
          IN opt' = IF ~skipped /\ Improves(score, opt.bestScore)
                    THEN [opt EXCEPT !.i = @ + 1, !.bestScore = score, !.best = candidate,
                                     !.firstMax = first]
                    ELSE [opt EXCEPT !.i = @ + 1, !.firstMax = first]
    /\ UNCHANGED <<loaderVars, surf, calc>>

\* after the loop: `if (!best)` answers "No feasible solution", else the best candidate
OptRespond ==
    /\ opt.phase = "loop"
    /\ ~MoreTrials(opt.i, opt.nSamples)
    /\ opt' = IF opt.best.found
              THEN OptDone(200, TRUE, "", opt)
              ELSE OptDone(200, FALSE, "No feasible solution found for the selected constraints.", opt)
    /\ UNCHANGED <<loaderVars, surf, calc>>

InitOptimize ==
    /\ LoaderInit
    /\ files = [d \in Datasets |-> IF d = US_DIAMONDS_DATASET_ID THEN UsCsvGood ELSE AuctionCsvGood]
    /\ opt = OptIdle
    /\ surf = [phase |-> "off"]
    /\ calc = [phase |-> "off"]

NextOptimize ==
    \/ \E body \in OptBodies : OptPost(body)
    \/ OptTrialUs
    \/ OptTrialAuction
    \/ OptRespond

SpecOptimize == InitOptimize /\ [][NextOptimize]_vars

(***************************************************************************)
(* Claims about the optimizer.  Probabilities are percentages (min_prob    *)
(* 1.01 is 101); n_samples is counted in halves (50.5 is 101).             *)
(***************************************************************************)
SupportedObjectives == {"max_price", "max_prob", "target"}

\* the request ran its loop to the end and was answered from it
OptRan == opt.phase = "done" /\ opt.status = 200

C6_SatisfiableFindsCandidate ==
    (/\ OptRan
     /\ opt.objective \in SupportedObjectives
     /\ opt.minProb = Num(0)) => (opt.success /\ opt.best.found)

\* C7: a request that runs the optimizer executes at least 50 and at most 5000
\* trials, whatever n_samples it carries.
C7_TrialsWithinBand ==
    OptRan => (opt.i >= MIN_SAMPLES /\ opt.i <= MAX_SAMPLES)

\* C8: a request for a known dataset whose objective is none of max_price,
\* max_prob and target is answered with an input error (status 400), not with
\* the answer of a run that found no feasible candidate.
C8_UnsupportedObjectiveRejected ==
    (/\ opt.phase = "done"
     /\ opt.dataset \in Datasets
     /\ opt.objective \notin SupportedObjectives)
        => (opt.status = 400 /\ opt.message # "No feasible solution found for the selected constraints.")

\* C14: under max_price on the synthetic-auction dataset, a returned candidate
\* has a predicted sale probability of at least min_prob, whatever the draws.
C14_ReturnedMeetsMinProb ==
    (/\ OptRan /\ opt.success
     /\ opt.dataset = STATIC_DATASET_ID
     /\ opt.objective = "max_price"
     /\ IsFinite(opt.minProb))
        => (opt.best.found /\ opt.best.pred_prob >= opt.minProb.v)

\* a full max_price run with the default min_prob 0.5 returned a candidate of
\* probability 0.5 from a sampled domain that also holds points below 0.5
C14_Witness ==
    /\ OptRan /\ opt.success /\ opt.dataset = STATIC_DATASET_ID
    /\ opt.objective = "max_price" /\ opt.minProb = Num(DEFAULT_MIN_PROB)
    /\ opt.i >= MIN_SAMPLES
    /\ opt.best.pred_prob = DEFAULT_MIN_PROB
    /\ \E carat \in randBetween(AuctionTrained.ranges.carat.min, AuctionTrained.ranges.carat.max),
          viewings \in randBetween(AuctionTrained.ranges.viewings.min,
                                   AuctionTrained.ranges.viewings.max),
          price_index \in randBetween(AuctionTrained.ranges.price_index.min,
                                      AuctionTrained.ranges.price_index.max) :
          LET input == [carat |-> carat, viewings |-> viewings, price_index |-> price_index,
                        color |-> "G", clarity |-> "VS1"]
          IN predictSaleProba(AuctionTrained.saleModel, input) < DEFAULT_MIN_PROB

\* C15: a returned candidate is the first trial, among the trials the
\* constraint does not skip, whose score is the greatest of the run: its
\* objective_score, feature values and predictions are that trial's.
C15_BestIsFirstMaximum ==
    (OptRan /\ opt.success) => (opt.best.found /\ opt.best = opt.firstMax)

\* a full run returned a candidate although a different trial of the sampled
\* domain has the same score (max_prob on the synthetic dataset has such ties)
C15_Witness ==
    /\ OptRan /\ opt.success /\ opt.dataset = STATIC_DATASET_ID
    /\ opt.objective = "max_prob" /\ opt.i >= MIN_SAMPLES
    /\ opt.best = opt.firstMax
    /\ \E carat \in randBetween(AuctionTrained.ranges.carat.min, AuctionTrained.ranges.carat.max),
          viewings \in randBetween(AuctionTrained.ranges.viewings.min,
                                   AuctionTrained.ranges.viewings.max) :
          /\ <<carat, viewings>> # <<opt.best.carat, opt.best.viewings>>
          /\ predictSaleProba(AuctionTrained.saleModel,
                              [carat |-> carat, viewings |-> viewings,
                               price_index |-> opt.best.price_index,
                               color |-> "G", clarity |-> "VS1"]) = opt.best.pred_prob

(***************************************************************************)
(* POST /surface (SpecSurface).                                            *)
(*                                                                         *)
(* n_points is counted in halves (21 is 10.5).  A grid coordinate is the   *)
(* exact fraction num/den that linspace computes; the models, which work   *)
(* on integers, encode a coordinate rounded down.                          *)
(***************************************************************************)
Undefined == [k |-> "undefined", v |-> 0]
Rat(num, den) == [k |-> "rat", num |-> num, den |-> den]
Floor(q) == IF q.k = "rat" THEN q.num \div q.den ELSE q.v

MIN_POINTS == 10
MAX_POINTS == 50
DEFAULT_POINTS == 25

\* Math.max(10, Math.min(50, nPoints)), in halves
ClampPoints(nPoints) == MathMax(Num(2 * MIN_POINTS), MathMin(Num(2 * MAX_POINTS), nPoints))

\* the properties every object literal inherits from Object.prototype
ObjectPrototypeKeys ==
    {"constructor", "toString", "toLocaleString", "valueOf", "hasOwnProperty",
     "isPrototypeOf", "propertyIsEnumerable", "__proto__"}

\* ranges[key]: the range stored under an own key, an inherited function or
\* object (with no min and no max), or undefined
Lookup(ranges, key) ==
    CASE key \in DOMAIN ranges -> [t |-> "range", min |-> Num(ranges[key].min),
                                   max |-> Num(ranges[key].max)]
      [] key \in ObjectPrototypeKeys -> [t |-> "inherited", min |-> Undefined, max |-> Undefined]
      [] OTHER -> [t |-> "undefined", min |-> Undefined, max |-> Undefined]

\* !v of a looked-up value: only undefined is falsy
Not(v) == v.t = "undefined"

\* linspace(min, max, n), n in halves: [min] when n <= 1, else the points
\* min + step * i for the integers i < n, with step = (max - min) / (n - 1);
\* arithmetic on undefined gives NaN, and no i is below NaN
linspace(min, max, n) ==
    CASE n.k = "nan" -> <<>>
      [] n.v <= 2 -> <<min>>
      [] OTHER ->
           [i \in 1..((n.v + 1) \div 2) |->
               IF min.k = "num" /\ max.k = "num"
               THEN Rat(min.v * (n.v - 2) + (max.v - min.v) * 2 * (i - 1), n.v - 2)
               ELSE NaN]

\* (range.min + range.max) / 2
Midpoint(range) == Rat(range.min + range.max, 2)

\* const inp = { ...typical }; inp[varX] = x; inp[varY] = y, read by the models
\* feature by feature (a key that is no feature is never read)
SurfaceInput(typical, varX, x, varY, y) ==
    [f \in DOMAIN typical |->
        IF f = varY THEN Floor(y) ELSE IF f = varX THEN Floor(x) ELSE typical[f]]

UsTypical ==
    [carat |-> Floor(Midpoint(UsTrained.ranges.carat)),
     depth |-> Floor(Midpoint(UsTrained.ranges.depth)),
     table |-> Floor(Midpoint(UsTrained.ranges.table)),
     x |-> Floor(Midpoint(UsTrained.ranges.x)),
     y |-> Floor(Midpoint(UsTrained.ranges.y)),
     z |-> Floor(Midpoint(UsTrained.ranges.z)),
     cut |-> "Ideal", color |-> "G", clarity |-> "VS1"]

AuctionTypical ==
    [carat |-> Floor(Midpoint(AuctionTrained.ranges.carat)),
     viewings |-> Floor(Midpoint(AuctionTrained.ranges.viewings)),
     price_index |-> Floor(Midpoint(AuctionTrained.ranges.price_index)),
     color |-> "G", clarity |-> "VS1"]

\* the value of one us-diamonds cell
UsCell(model, metric, varX, x, varY, y) ==
    IF metric = "Sale Probability" THEN 0
    ELSE predictUSDiamondsPrice(UsTrained, model, SurfaceInput(UsTypical, varX, x, varY, y))

\* the value of one synthetic-auction cell (a probability is a percentage)
AuctionCell(metric, varX, x, varY, y) ==
    LET inp == SurfaceInput(AuctionTypical, varX, x, varY, y)
        pred_price == predictPrice(AuctionTrained.priceModel, inp)
        pred_prob == predictSaleProba(AuctionTrained.saleModel, inp)
    IN CASE metric = "Final Price" -> pred_price
         [] metric = "Sale Probability" -> pred_prob
         [] OTHER -> pred_price * pred_prob

SurfDatasetIds == {"", US_DIAMONDS_DATASET_ID, STATIC_DATASET_ID, "uploaded-1"}
SurfVarXs == {Missing, StrField("depth"), StrField("viewings"), StrField("cut"),
              StrField("constructor")}
SurfVarYs == {Missing, StrField("carat"), StrField("depth"), StrField("price_index"),
              StrField("toString")}
SurfMetrics == {Missing, StrField("Sale Probability"), StrField("Expected Revenue")}
\* 5, 10.5 and a string that is no numeral; absent (25) and 100
SurfPoints == {NumField(10), NumField(21), StrField("abc")}
SurfLongPoints == {Missing, NumField(200)}
SurfModelNames == {NameMissing, NameRandomForest, NameXGBoost}

\* the request bodies: every combination with a small grid, and the large grids
\* (25 and 50 points a side) with the other fields absent
SurfBodies ==
    [datasetId : SurfDatasetIds, var_x : SurfVarXs, var_y : SurfVarYs, metric : SurfMetrics,
     n_points : SurfPoints, modelName : SurfModelNames]
    \cup [datasetId : SurfDatasetIds, var_x : {Missing}, var_y : {Missing, StrField("depth")},
          metric : {Missing}, n_points : SurfLongPoints, modelName : {NameMissing}]

SurfaceError(body, status, message) ==
    [phase |-> "done", body |-> body, status |-> status, success |-> FALSE,
     message |-> message, model |-> "", x_grid |-> <<>>, y_grid |-> <<>>, z_values |-> <<>>]

\* the nested loops: row i holds ys[i], column j holds xs[j]
SurfaceGrid(body, model, xs, ys, zs) ==
    [phase |-> "done", body |-> body, status |-> 200, success |-> TRUE, message |-> "",
     model |-> model,
     x_grid |-> [i \in DOMAIN ys |-> [j \in DOMAIN xs |-> xs[j]]],
     y_grid |-> [i \in DOMAIN ys |-> [j \in DOMAIN xs |-> ys[i]]],
     z_values |-> zs]

\* the handler's answer to a body
SurfaceResponse(body) ==
    LET datasetId == body.datasetId
        varX == StringOr(body.var_x, "carat")
        varY == StringOr(body.var_y, "viewings")
        metric == StringOr(body.metric, "Final Price")
        nPoints == NumberOr(body.n_points, 2 * DEFAULT_POINTS)
        ranges == IF datasetId = US_DIAMONDS_DATASET_ID THEN UsTrained.ranges
                  ELSE AuctionTrained.ranges
        rx == Lookup(ranges, varX)
        ry == Lookup(ranges, varY)
        xs == linspace(rx.min, rx.max, ClampPoints(nPoints))
        ys == linspace(ry.min, ry.max, ClampPoints(nPoints))
        model == parseUSDiamondsModelName(body.modelName)
        UsZ == [i \in DOMAIN ys |-> [j \in DOMAIN xs |->
                   UsCell(model, metric, varX, xs[j], varY, ys[i])]]
        AuctionZ == [i \in DOMAIN ys |-> [j \in DOMAIN xs |->
                        AuctionCell(metric, varX, xs[j], varY, ys[i])]]
    IN CASE datasetId = "" -> SurfaceError(body, 400, "datasetId is required")
         [] datasetId = US_DIAMONDS_DATASET_ID ->
              IF Not(rx) \/ Not(ry)
              THEN SurfaceError(body, 400, "Invalid surface variables")
              ELSE SurfaceGrid(body, model, xs, ys, UsZ)
         [] datasetId # US_DIAMONDS_DATASET_ID /\ datasetId # STATIC_DATASET_ID ->
              SurfaceError(body, 400, "Unknown datasetId")
         [] OTHER ->
              IF Not(rx) \/ Not(ry)
              THEN SurfaceError(body, 400, "Invalid surface variables")
              ELSE SurfaceGrid(body, "Linear", xs, ys, AuctionZ)

\* POST /surface: the handler from the parsed body to its response
SurfacePost ==
    /\ surf.phase = "request"
    /\ surf' = SurfaceResponse(surf.body)
    /\ UNCHANGED <<loaderVars, opt, calc>>

InitSurface ==
    /\ LoaderInit
    /\ files = [d \in Datasets |-> IF d = US_DIAMONDS_DATASET_ID THEN UsCsvGood ELSE AuctionCsvGood]
    /\ opt = [phase |-> "off"]
    /\ calc = [phase |-> "off"]
    /\ \E body \in SurfBodies : surf = [phase |-> "request", body |-> body]

NextSurface == SurfacePost

SpecSurface == InitSurface /\ [][NextSurface]_vars

(***************************************************************************)
(* Claims about the request boundary of the surface endpoint.              *)
(***************************************************************************)
KnownModelNames == {NameRidge, NameRandomForest, NameRandomForestSpaced}

\* the numeric features of a dataset: the keys of its ranges
NumericFeatures(datasetId) ==
    IF datasetId = US_DIAMONDS_DATASET_ID THEN DOMAIN UsTrained.ranges
    ELSE DOMAIN AuctionTrained.ranges

\* C9: a us-diamonds request that names a model kind that is none of the known
\* ones is answered with an input error (status 400) and is not served by a
\* default model.
C9_UnknownModelRejected ==
    (/\ surf.phase = "done"
     /\ surf.body.datasetId = US_DIAMONDS_DATASET_ID
     /\ surf.body.modelName \notin KnownModelNames \cup {NameMissing})
        => (surf.status = 400 /\ surf.model = "")

\* C10: a surface request for a known dataset whose var_x or var_y is not a
\* numeric feature of the dataset is answered 400 'Invalid surface variables'
\* with no grid.
C10_InvalidVariablesRejected ==
    (/\ surf.phase = "done"
     /\ surf.body.datasetId \in Datasets
     /\ \/ StringOr(surf.body.var_x, "carat") \notin NumericFeatures(surf.body.datasetId)
        \/ StringOr(surf.body.var_y, "viewings") \notin NumericFeatures(surf.body.datasetId))
        => (/\ surf.status = 400
            /\ surf.message = "Invalid surface variables"
            /\ surf.x_grid = <<>> /\ surf.y_grid = <<>> /\ surf.z_values = <<>>)

(***************************************************************************)
(* Claims about the grid of the surface endpoint.  The handler's locals    *)
(* are recomputed from the request body the response echoes.               *)
(***************************************************************************)
SurfVarX == StringOr(surf.body.var_x, "carat")
SurfVarY == StringOr(surf.body.var_y, "viewings")
SurfMetric == StringOr(surf.body.metric, "Final Price")
SurfRanges ==
    IF surf.body.datasetId = US_DIAMONDS_DATASET_ID THEN UsTrained.ranges
    ELSE AuctionTrained.ranges
\* xs and ys of the handler
SurfXs ==
    linspace(Lookup(SurfRanges, SurfVarX).min, Lookup(SurfRanges, SurfVarX).max,
             ClampPoints(NumberOr(surf.body.n_points, 2 * DEFAULT_POINTS)))
SurfYs ==
    linspace(Lookup(SurfRanges, SurfVarY).min, Lookup(SurfRanges, SurfVarY).max,
             ClampPoints(NumberOr(surf.body.n_points, 2 * DEFAULT_POINTS)))

\* the request was answered with a grid
SurfAnswered == surf.phase = "done" /\ surf.success

\* C11: a surface request for a known dataset with var_x equal to var_y is
\* answered with an input error (status 400) and no grid.
C11_SameVariableRejected ==
    (/\ surf.phase = "done"
     /\ surf.body.datasetId \in Datasets
     /\ SurfVarX = SurfVarY)
        => (/\ surf.status = 400 /\ ~surf.success
            /\ surf.x_grid = <<>> /\ surf.y_grid = <<>> /\ surf.z_values = <<>>)

\* the three grids have n rows of n cells each
IsSquare(g, n) == Len(g) = n /\ \A i \in DOMAIN g : Len(g[i]) = n
SquareOf(n) ==
    IsSquare(surf.x_grid, n) /\ IsSquare(surf.y_grid, n) /\ IsSquare(surf.z_values, n)

\* C12: every successful surface response has x_grid, y_grid and z_values of
\* shape resolution x resolution for one integer resolution in [10, 50],
\* whatever n_points the request carries.
C12_GridShape ==
    SurfAnswered => \E n \in MIN_POINTS..MAX_POINTS : SquareOf(n)

\* C13: in every grid x[i][j] is the j-th point of var_x, y[i][j] is the i-th
\* point of var_y, and z[i][j] is the metric predicted for the typical record
\* with var_x set to xs[j] and var_y set to ys[i] (whichever of the two
\* assignments is made last).
C13_GridOrientation ==
    SurfAnswered =>
        \A i \in DOMAIN surf.z_values : \A j \in DOMAIN surf.z_values[i] :
            /\ surf.x_grid[i][j] = SurfXs[j]
            /\ surf.y_grid[i][j] = SurfYs[i]
            /\ \A order \in {"x then y", "y then x"} :
                 LET firstVar == IF order = "x then y" THEN SurfVarX ELSE SurfVarY
                     first == IF order = "x then y" THEN SurfXs[j] ELSE SurfYs[i]
                     lastVar == IF order = "x then y" THEN SurfVarY ELSE SurfVarX
                     last == IF order = "x then y" THEN SurfYs[i] ELSE SurfXs[j]
                 IN surf.z_values[i][j] =
                      IF surf.body.datasetId = US_DIAMONDS_DATASET_ID
                      THEN UsCell(surf.model, SurfMetric, firstVar, first, lastVar, last)
                      ELSE AuctionCell(SurfMetric, firstVar, first, lastVar, last)

(***************************************************************************)
(* Feature encoding (SpecEncode).                                          *)
(*                                                                         *)
(* An encoder is drawn as training would leave it: each vocabulary is the  *)
(* sorted list of the distinct values of some non-empty training set.      *)
(* Then one record, whose categorical values may be unseen or empty, is    *)
(* encoded.                                                                *)
(***************************************************************************)
\* levels.map((c) => `field:${c}`)
Prefixed(field, levels) == [i \in DOMAIN levels |-> field \o ":" \o levels[i]]

\* the featureNames of buildEncoder
UsFeatureNames(cutLevels, colorLevels, clarityLevels) ==
    <<"intercept">> \o NUMERIC_COLS \o Prefixed("cut", cutLevels)
    \o Prefixed("color", colorLevels) \o Prefixed("clarity", clarityLevels)

\* the features of train
AuctionFeatures(colorLevels, clarityLevels) ==
    <<"intercept", "carat", "viewings", "price_index">>
    \o Prefixed("color", colorLevels) \o Prefixed("clarity", clarityLevels)

\* the Encoder that buildEncoder returns for training rows with these values
UsEncoderOf(cuts, colors, clarities) ==
    LET cutLevels == SelectSeqBy(StrOrder, cuts)
        colorLevels == SelectSeqBy(StrOrder, colors)
        clarityLevels == SelectSeqBy(StrOrder, clarities)
    IN [cutLevels |-> cutLevels, colorLevels |-> colorLevels, clarityLevels |-> clarityLevels,
        numericMeans |-> UsEncoder.numericMeans, numericStds |-> UsEncoder.numericStds,
        featureNames |-> UsFeatureNames(cutLevels, colorLevels, clarityLevels)]

\* the Model that train returns for training rows with these values
AuctionModelOf(colors, clarities) ==
    LET colorLevels == SelectSeqBy(StrOrder, colors)
        clarityLevels == SelectSeqBy(StrOrder, clarities)
    IN [features |-> AuctionFeatures(colorLevels, clarityLevels),
        numericMeans |-> AuctionTrained.priceModel.numericMeans,
        numericStds |-> AuctionTrained.priceModel.numericStds,
        colorLevels |-> colorLevels, clarityLevels |-> clarityLevels]

NonEmptySubsets(S) == (SUBSET S) \ {{}}
TrainCuts == {"Good", "Ideal"}
TrainColors == {"E", "G"}
TrainClarities == {"SI1", "VS1"}

\* records to encode: seen values, a value no training row had, and the empty string
EncodeCuts == TrainCuts \cup {"Fair", ""}
EncodeColors == TrainColors \cup {"J"}
EncodeClarities == TrainClarities \cup {"IF"}
EncodeCarats == {1, 3}

UsRecords ==
    [carat : EncodeCarats, cut : EncodeCuts, color : EncodeColors, clarity : EncodeClarities,
     depth : {61}, table : {57}, x : {4}, y : {4}, z : {2}]
AuctionRecords ==
    [carat : EncodeCarats, viewings : {10, 30}, price_index : {100},
     color : EncodeColors, clarity : EncodeClarities]

InitEncode ==
    /\ LoaderInit
    /\ files = [d \in Datasets |-> IF d = US_DIAMONDS_DATASET_ID THEN UsCsvGood ELSE AuctionCsvGood]
    /\ opt = [phase |-> "off"]
    /\ surf = [phase |-> "off"]
    /\ \/ \E cuts \in NonEmptySubsets(TrainCuts), colors \in NonEmptySubsets(TrainColors),
             clarities \in NonEmptySubsets(TrainClarities) :
             calc = [phase |-> "encoder", dataset |-> US_DIAMONDS_DATASET_ID,
                     names |-> UsEncoderOf(cuts, colors, clarities).featureNames,
                     enc |-> UsEncoderOf(cuts, colors, clarities)]
       \/ \E colors \in NonEmptySubsets(TrainColors), clarities \in NonEmptySubsets(TrainClarities) :
             calc = [phase |-> "encoder", dataset |-> STATIC_DATASET_ID,
                     names |-> AuctionModelOf(colors, clarities).features,
                     enc |-> AuctionModelOf(colors, clarities)]

\* encodeRow(row, enc)
EncodeUs ==
    /\ calc.phase = "encoder" /\ calc.dataset = US_DIAMONDS_DATASET_ID
    /\ \E row \in UsRecords :
          calc' = [phase |-> "encoded", dataset |-> calc.dataset, names |-> calc.names,
                   enc |-> calc.enc, row |-> row, v |-> encodeRow(row, calc.enc)]
    /\ UNCHANGED <<loaderVars, opt, surf>>

\* buildFeatureVector(input, model)
EncodeAuction ==
    /\ calc.phase = "encoder" /\ calc.dataset = STATIC_DATASET_ID
    /\ \E input \in AuctionRecords :
          calc' = [phase |-> "encoded", dataset |-> calc.dataset, names |-> calc.names,
                   enc |-> calc.enc, row |-> input, v |-> buildFeatureVector(input, calc.enc)]
    /\ UNCHANGED <<loaderVars, opt, surf>>

NextEncode == EncodeUs \/ EncodeAuction

SpecEncode == InitEncode /\ [][NextEncode]_vars

(***************************************************************************)
(* Claims about the encoding.                                              *)
(***************************************************************************)
StartsWith(name, prefix) ==
    Len(name) >= Len(prefix) /\ SubSeq(name, 1, Len(prefix)) = prefix

EncNumerics ==
    IF calc.dataset = US_DIAMONDS_DATASET_ID THEN NUMERIC_COLS ELSE AUCTION_NUMERIC
EncCategoricals ==
    IF calc.dataset = US_DIAMONDS_DATASET_ID THEN <<"cut", "color", "clarity">>
    ELSE <<"color", "clarity">>
Vocabulary(field) == calc.enc[field \o "Levels"]
InVocabulary(field) == \E i \in DOMAIN Vocabulary(field) : Vocabulary(field)[i] = calc.row[field]

\* position k of the vector is the flag of level number l of categorical number f
FlagAt(k, f, l) ==
    /\ f \in DOMAIN EncCategoricals
    /\ l \in DOMAIN Vocabulary(EncCategoricals[f])
    /\ calc.names[k] = EncCategoricals[f] \o ":" \o Vocabulary(EncCategoricals[f])[l]
    /\ calc.v[k] = IF calc.row[EncCategoricals[f]] = Vocabulary(EncCategoricals[f])[l]
                    THEN 1 ELSE 0

\* C16: the vector of an encoded record is as long as the encoder's list of
\* feature names, whatever the record, and position by position it is the
\* constant 1, then the normalized numeric fields in declared order, then the
\* flags of each categorical vocabulary, every level once and in sorted order.
C16_VectorMatchesFeatureNames ==
    calc.phase = "encoded" =>
        LET n == Len(EncNumerics)
            flags == (n + 2)..Len(calc.v)
        IN /\ Len(calc.v) = Len(calc.names)
           /\ Len(calc.v) = 1 + n + SeqSum([f \in DOMAIN EncCategoricals |->
                                               Len(Vocabulary(EncCategoricals[f]))])
           /\ calc.names[1] = "intercept" /\ calc.v[1] = 1
           /\ \A i \in 1..n :
                 /\ calc.names[1 + i] = EncNumerics[i]
                 /\ calc.v[1 + i] = (calc.row[EncNumerics[i]] - calc.enc.numericMeans[EncNumerics[i]])
                                        \div calc.enc.numericStds[EncNumerics[i]]
           /\ \A k \in flags : \E f \in DOMAIN EncCategoricals :
                 \E l \in DOMAIN Vocabulary(EncCategoricals[f]) : FlagAt(k, f, l)
           /\ \A k \in flags, f1, f2 \in DOMAIN EncCategoricals :
                 \A l1 \in DOMAIN Vocabulary(EncCategoricals[f1]),
                    l2 \in DOMAIN Vocabulary(EncCategoricals[f2]) :
                    (k + 1 \in flags /\ FlagAt(k, f1, l1) /\ FlagAt(k + 1, f2, l2))
                       => \/ f1 < f2
                          \/ /\ f1 = f2
                             /\ Rank(Vocabulary(EncCategoricals[f1])[l1])
                                  < Rank(Vocabulary(EncCategoricals[f2])[l2])

\* a us-diamonds record with an unseen cut was encoded by an encoder with two
\* levels in every vocabulary: 13 names, 13 entries
C16_Witness ==
    /\ calc.phase = "encoded" /\ calc.dataset = US_DIAMONDS_DATASET_ID
    /\ calc.row.cut = "Fair" /\ calc.row.color = "G"
    /\ Len(calc.enc.cutLevels) = 2 /\ Len(calc.names) = 13 /\ Len(calc.v) = 13

\* the flags of a categorical field that are set in the vector
Ones(field) ==
    {k \in DOMAIN calc.v : StartsWith(calc.names[k], field \o ":") /\ calc.v[k] = 1}

\* C17: in the vector of an encoded record, each categorical field has exactly
\* one flag set when the record's value is in the vocabulary and none when it
\* is unseen; every record is encoded.
C17_OneHotOrAllZero ==
    calc.phase = "encoded" =>
        \A f \in DOMAIN EncCategoricals :
            LET field == EncCategoricals[f]
            IN /\ Cardinality(Ones(field)) = IF InVocabulary(field) THEN 1 ELSE 0
               /\ \A k \in DOMAIN calc.v :
                     StartsWith(calc.names[k], field \o ":") => calc.v[k] \in {0, 1}

\* a synthetic-auction record with an unseen color and a seen clarity was encoded
C17_Witness ==
    /\ calc.phase = "encoded" /\ calc.dataset = STATIC_DATASET_ID
    /\ calc.row.color = "J" /\ Ones("color") = {}
    /\ calc.row.clarity = "VS1" /\ Cardinality(Ones("clarity")) = 1
    /\ Len(calc.enc.colorLevels) = 2

(***************************************************************************)
(* Row ingestion (SpecIngest): a CSV file of two data lines, each drawn    *)
(* from lines with good, non-numeric and empty cells, is parsed by the     *)
(* loader's parse loop.                                                    *)
(***************************************************************************)
IngestUsLines ==
    {UsLine(carat, cut, TCell("G"), TCell("VS1"), depth, price) :
        carat \in {NCell(1), TCell("n/a")}, cut \in {TCell("Ideal"), EmptyCell},
        depth \in {NCell(61), TCell("n/a"), EmptyCell}, price \in {NCell(5000), TCell("n/a")}}
IngestAuctionLines ==
    {AuctionLine(lot, carat, color, TCell("VS1"), NCell(10), final, NCell(1)) :
        lot \in {TCell("L1"), EmptyCell}, carat \in {NCell(1), TCell("n/a")},
        color \in {TCell("G"), EmptyCell}, final \in {NCell(5000), TCell("n/a")}}

\* a file as it is when a column was never exported: the header and every
\* line lack it ("" : no column is absent)
WithoutColumn(csv, name) ==
    LET keep == {i \in DOMAIN csv.header : csv.header[i] # name}
        Cut(seq) == [p \in 1..Cardinality(keep) |->
                       seq[CHOOSE i \in keep : Cardinality({j \in keep : j < i}) = p - 1]]
    IN [header |-> Cut(csv.header), lines |-> [l \in DOMAIN csv.lines |-> Cut(csv.lines[l])]]

InitIngest ==
    /\ LoaderInit
    /\ files = [d \in Datasets |-> IF d = US_DIAMONDS_DATASET_ID THEN UsCsvGood ELSE AuctionCsvGood]
    /\ opt = [phase |-> "off"]
    /\ surf = [phase |-> "off"]
    /\ \/ \E l1, l2 \in IngestUsLines, absent \in {"", "depth"} :
             calc = [phase |-> "file", dataset |-> US_DIAMONDS_DATASET_ID,
                     csv |-> WithoutColumn([header |-> US_COLUMNS, lines |-> <<l1, l2>>], absent)]
       \/ \E l1, l2 \in IngestAuctionLines, absent \in {"", "viewings", "color"} :
             calc = [phase |-> "file", dataset |-> STATIC_DATASET_ID,
                     csv |-> WithoutColumn([header |-> AUCTION_COLUMNS, lines |-> <<l1, l2>>], absent)]

\* the parse loop of loadTrainedUSDiamonds
IngestUs ==
    /\ calc.phase = "file" /\ calc.dataset = US_DIAMONDS_DATASET_ID
    /\ calc' = [phase |-> "ingested", dataset |-> calc.dataset, csv |-> calc.csv,
                rows |-> ParseUSDiamonds(calc.csv).rows,
                threw |-> ParseUSDiamonds(calc.csv).threw,
                message |-> ParseUSDiamonds(calc.csv).message,
                \* a throw leaves the function before `cached = {...}`
                trained |-> ~ParseUSDiamonds(calc.csv).threw]
    /\ UNCHANGED <<loaderVars, opt, surf>>

\* the parse loop of loadTrainedSyntheticAuction
IngestAuction ==
    /\ calc.phase = "file" /\ calc.dataset = STATIC_DATASET_ID
    /\ calc' = [phase |-> "ingested", dataset |-> calc.dataset, csv |-> calc.csv,
                rows |-> ParseSyntheticAuction(calc.csv).rows,
                threw |-> ParseSyntheticAuction(calc.csv).threw,
                message |-> ParseSyntheticAuction(calc.csv).message,
                \* `cached = train(rows)` follows the loop unconditionally
                trained |-> TRUE]
    /\ UNCHANGED <<loaderVars, opt, surf>>

NextIngest == IngestUs \/ IngestAuction

SpecIngest == InitIngest /\ [][NextIngest]_vars

\* the numeric features and the targets, and the categorical features, of a dataset
NumericFields(d) ==
    IF d = US_DIAMONDS_DATASET_ID THEN NUMERIC_COLS \o <<"price">>
    ELSE AUCTION_NUMERIC \o <<"final_price", "sold">>
CategoricalFields(d) ==
    IF d = US_DIAMONDS_DATASET_ID THEN <<"cut", "color", "clarity">> ELSE <<"color", "clarity">>

\* C20: every row the parse loop keeps has a finite value for every numeric
\* feature and target and a non-empty value for every categorical feature.
C20_KeptRowsAreClean ==
    calc.phase = "ingested" =>
        \A i \in DOMAIN calc.rows :
            /\ \A n \in DOMAIN NumericFields(calc.dataset) :
                  IsFinite(calc.rows[i][NumericFields(calc.dataset)[n]])
            /\ \A c \in DOMAIN CategoricalFields(calc.dataset) :
                  calc.rows[i][CategoricalFields(calc.dataset)[c]] # ""

(***************************************************************************)
(* Feature importance (SpecImportance).                                    *)
(*                                                                         *)
(* Weights are integers or NaN; an importance value is the exact fraction  *)
(* weight/total, or NaN.  The coefficients of a fit are drawn from small   *)
(* sets; a fit on a training matrix that holds a NaN yields NaN for every  *)
(* coefficient, because solve() carries it into every row.                 *)
(***************************************************************************)
PatternLen == 3
WeightValues == {-3, 0, 2}
WeightPatterns == [1..PatternLen -> WeightValues]
\* n weights that repeat a pattern
Weights(n, pattern) == [i \in 1..n |-> pattern[((i - 1) % PatternLen) + 1]]

JsAbs(x) == IF IsFinite(x) THEN Num(Abs(x.v)) ELSE NaN
JsAdd(a, b) == IF IsFinite(a) /\ IsFinite(b) THEN Num(a.v + b.v) ELSE NaN
RECURSIVE JsSum(_)
JsSum(s) == IF s = <<>> THEN Num(0) ELSE JsAdd(Head(s), JsSum(Tail(s)))
\* `total || 1`: 0 and NaN are falsy
OrOne(x) == IF IsFinite(x) /\ x.v # 0 THEN x ELSE Num(1)
\* w / total for a finite non-zero total
JsDiv(w, total) == IF IsFinite(w) THEN Rat(w.v, total.v) ELSE NaN
\* beta[i] ?? 0
BetaAt(beta, i) == IF i \in DOMAIN beta THEN beta[i] ELSE Num(0)

\* `out[k] = w / total` over the pairs, a later pair of the same name winning
NormalizedPairs(names, w) ==
    LET total == OrOne(JsSum(w))
    IN [k \in {names[p] : p \in DOMAIN names} |->
          JsDiv(w[CHOOSE p \in DOMAIN names :
                     names[p] = k /\ \A q \in DOMAIN names : names[q] = k => q <= p], total)]

\* shap/route.ts normalizeImportance, and the Ridge branch of getUSDiamondsImportance
normalizeImportance(featureNames, beta) ==
    LET idx == SelectSeqBy([i \in DOMAIN featureNames |-> i],
                           {i \in DOMAIN featureNames : featureNames[i] # "intercept"})
    IN NormalizedPairs([p \in DOMAIN idx |-> featureNames[idx[p]]],
                       [p \in DOMAIN idx |-> JsAbs(BetaAt(beta, idx[p]))])

\* Math.max(0, mse - baseMse) of column j
PermutationDelta(baseMse, mse, j) == IF mse[j] > baseMse THEN Num(mse[j] - baseMse) ELSE Num(0)

\* permutationImportanceRF: one pair per column of the matrix, the intercept
\* column included, then the two baseline entries
permutationImportanceRF(baseMse, mse, featureNames) ==
    NormalizedPairs([j \in DOMAIN mse |-> IF j \in DOMAIN featureNames THEN featureNames[j] ELSE "x"],
                    [j \in DOMAIN mse |-> PermutationDelta(baseMse, mse, j)])
    @@ [k \in {"__baseline_r2", "__baseline_mae"} |-> Num(0)]

\* the RandomForest branch of getUSDiamondsImportance: the keys that do not
\* start with "__"
StripHelperKeys(importance) ==
    [k \in {k \in DOMAIN importance : ~StartsWith(k, "__")} |-> importance[k]]

\* ridgeFit on the encoded training rows: some finite coefficients, or NaN
\* everywhere when a row holds a non-finite numeric feature
ridgeFit(rows, coefficients) ==
    IF \E i \in DOMAIN rows, c \in DOMAIN NUMERIC_COLS : ~IsFinite(rows[i][NUMERIC_COLS[c]])
    THEN [i \in DOMAIN coefficients |-> NaN]
    ELSE [i \in DOMAIN coefficients |-> Num(coefficients[i])]

\* US_diamonds.csv with a depth cell that is not a number
UsCsvBadDepth ==
    [header |-> US_COLUMNS,
     lines |-> << UsLine(NCell(1), TCell("Ideal"), TCell("G"), TCell("VS1"), TCell("n/a"), NCell(5000)),
                  UsLine(NCell(2), TCell("Premium"), TCell("E"), TCell("VS1"), NCell(62), NCell(9000)) >>]

\* the featureNames of the encoder built on the kept rows of a file
UsNamesOf(csv) ==
    LET enc == buildEncoder(sampleRows(ParseUSDiamonds(csv).rows, TRAIN_SAMPLE))
    IN UsFeatureNames(enc.levels.cut, enc.levels.color, enc.levels.clarity)

BASE_MSE == 4

InitImportance ==
    /\ LoaderInit
    /\ files = [d \in Datasets |-> IF d = US_DIAMONDS_DATASET_ID THEN UsCsvGood ELSE AuctionCsvGood]
    /\ opt = [phase |-> "off"]
    /\ surf = [phase |-> "off"]
    /\ \E pattern \in WeightPatterns :
         \/ LET names == AuctionTrained.priceModel.features
            IN calc = [phase |-> "weights", kind |-> "Linear", names |-> names,
                       beta |-> [i \in DOMAIN names |-> Num(Weights(Len(names), pattern)[i])],
                       baseMse |-> 0, mse |-> <<>>]
         \/ \E csv \in {UsCsvGood, UsCsvBadDepth} :
              LET names == UsNamesOf(csv)
              IN calc = [phase |-> "weights", kind |-> "Ridge", names |-> names,
                         beta |-> ridgeFit(sampleRows(ParseUSDiamonds(csv).rows, TRAIN_SAMPLE),
                                           Weights(Len(names), pattern)),
                         baseMse |-> 0, mse |-> <<>>]
         \/ LET names == UsNamesOf(UsCsvGood)
            IN calc = [phase |-> "weights", kind |-> "RandomForest", names |-> names,
                       beta |-> <<>>, baseMse |-> BASE_MSE,
                       \* shuffling the constant intercept column changes no prediction
                       mse |-> [j \in DOMAIN names |->
                                  IF j = 1 THEN BASE_MSE
                                  ELSE BASE_MSE + Weights(Len(names), pattern)[j]]]

\* POST /shap on the synthetic dataset
ImportanceLinear ==
    /\ calc.phase = "weights" /\ calc.kind = "Linear"
    /\ calc' = [out |-> normalizeImportance(calc.names, calc.beta)]
                 @@ [calc EXCEPT !.phase = "importance"]
    /\ UNCHANGED <<loaderVars, opt, surf>>

\* getUSDiamondsImportance(trained, 'Ridge')
ImportanceRidge ==
    /\ calc.phase = "weights" /\ calc.kind = "Ridge"
    /\ calc' = [out |-> normalizeImportance(calc.names, calc.beta)]
                 @@ [calc EXCEPT !.phase = "importance"]
    /\ UNCHANGED <<loaderVars, opt, surf>>

\* getUSDiamondsImportance(trained, 'RandomForest')
ImportanceRandomForest ==
    /\ calc.phase = "weights" /\ calc.kind = "RandomForest"
    /\ calc' = [out |-> StripHelperKeys(permutationImportanceRF(calc.baseMse, calc.mse, calc.names))]
                 @@ [calc EXCEPT !.phase = "importance"]
    /\ UNCHANGED <<loaderVars, opt, surf>>

NextImportance == ImportanceLinear \/ ImportanceRidge \/ ImportanceRandomForest

SpecImportance == InitImportance /\ [][NextImportance]_vars

(***************************************************************************)
(* Claims about the importance maps.                                       *)
(***************************************************************************)
\* the raw weight of the feature at position i of the name list
RawWeight(i) ==
    IF calc.kind = "RandomForest" THEN PermutationDelta(calc.baseMse, calc.mse, i)
    ELSE BetaAt(calc.beta, i)
Features == {i \in DOMAIN calc.names : calc.names[i] # "intercept"}

RECURSIVE NumeratorSum(_, _)
NumeratorSum(f, keys) ==
    IF keys = {} THEN 0
    ELSE LET k == CHOOSE k \in keys : TRUE
         IN f[k].num + NumeratorSum(f, keys \ {k})

\* C18: every value of an importance map is non-negative; the values sum to 1
\* when some feature has a non-zero raw weight and are all zero when every
\* raw weight is zero.
C18_NonNegativeNormalized ==
    calc.phase = "importance" =>
        /\ \A k \in DOMAIN calc.out :
              calc.out[k].k = "rat" /\ calc.out[k].num >= 0 /\ calc.out[k].den > 0
        /\ \A k1, k2 \in DOMAIN calc.out : calc.out[k1].den = calc.out[k2].den
        /\ IF \E i \in Features : RawWeight(i) # Num(0)
           THEN \A k \in DOMAIN calc.out : NumeratorSum(calc.out, DOMAIN calc.out) = calc.out[k].den
           ELSE \A k \in DOMAIN calc.out : calc.out[k].num = 0

\* C19: the keys of an importance map are exactly the feature names other
\* than the intercept, for every model kind.
C19_KeysAreFeatureNames ==
    calc.phase = "importance" =>
        DOMAIN calc.out = {calc.names[i] : i \in Features}

\* the columns a loader reads that the file's header does not have
AbsentColumns ==
    LET required == IF calc.dataset = US_DIAMONDS_DATASET_ID THEN US_COLUMNS ELSE AUCTION_COLUMNS
    IN {required[i] : i \in DOMAIN required} \ {calc.csv.header[i] : i \in DOMAIN calc.csv.header}

\* C21: a file whose header lacks a required column makes the loader fail with
\* a message, keep no row and train nothing.
C21_MissingColumnFails ==
    (calc.phase = "ingested" /\ AbsentColumns # {})
        => (calc.threw /\ calc.message # "" /\ ~calc.trained /\ calc.rows = <<>>)

NullField == [t |-> "null", n |-> 0, s |-> ""]

\* Number(field): undefined and a string that is no numeral give NaN; null
\* and the empty string give 0
JsNumber(field) ==
    CASE field.t = "num" -> Num(field.n)
      [] field.t = "null" -> Num(0)
      [] field.t = "str" /\ field.s = "" -> Num(0)
      [] OTHER -> NaN

\* z80 = 1.281551565545, in thousandths
Z80_MILLI == 1282

\* the residualStd a loader stores: std() of the training errors, which is 1
\* when the errors are NaN (`s > 1e-8 ? s : 1`)
residualStd(beta, fitted) ==
    IF \E i \in DOMAIN beta : ~IsFinite(beta[i]) THEN 1 ELSE fitted

\* the artifact loadTrainedUSDiamonds builds from a file
UsTrainedOn(csv) ==
    LET rows == sampleRows(ParseUSDiamonds(csv).rows, TRAIN_SAMPLE)
        beta == ridgeFit(rows, UsTrained.ridge.beta)
    IN [UsTrained EXCEPT !.ridge.beta = beta,
                         !.ridge.residualStd = residualStd(beta, UsTrained.ridge.residualStd)]

\* matVecMul([x], beta)[0]
JsDot(x, beta) ==
    IF \E i \in DOMAIN beta : ~IsFinite(beta[i]) THEN NaN
    ELSE Num(Dot(x, [i \in DOMAIN beta |-> beta[i].v]))

\* pred + k * z80 * sd in thousandths (k is -1 or 1)
IntervalEnd(pred, k, sd) ==
    IF IsFinite(pred) THEN Rat(1000 * pred.v + k * Z80_MILLI * sd, 1000) ELSE NaN

\* predictUSDiamonds(trained, model, input)
predictUSDiamonds(trained, model, input) ==
    LET x == encodeRow(input, trained.encoder)
        pred == IF model = "RandomForest" THEN Num(RfPredict(trained.rf.rf, x))
                ELSE JsDot(x, trained.ridge.beta)
        sd == IF model = "RandomForest" THEN trained.rf.residualStd
               ELSE trained.ridge.residualStd
    IN [predicted_price |-> pred,
        price_low |-> IntervalEnd(pred, -1, sd),
        price_high |-> IntervalEnd(pred, 1, sd)]

\* recommendedReserve: Math.max(0, predPrice * (0.75 + 0.2 * saleProba)), saleProba in percent
recommendedReserve(predPrice, saleProba) ==
    LET reserve == (predPrice * (7500 + 20 * saleProba)) \div 10000
    IN IF reserve > 0 THEN reserve ELSE 0

PredictDatasetIds == {"", US_DIAMONDS_DATASET_ID, STATIC_DATASET_ID, "uploaded-1"}
\* a numeric field of a body: a number, absent, null, '' and a string that is no numeral
PredictCarats == {NumField(1), Missing, NullField, StrField(""), StrField("abc")}
PredictSeconds == {NumField(61), Missing}
PredictColors == {StrField("G"), Missing, StrField("")}
PredictBodies ==
    [datasetId : PredictDatasetIds, modelName : {NameMissing, NameRandomForest},
     carat : PredictCarats, second : PredictSeconds, color : PredictColors]

NoPrediction ==
    [predicted_price |-> Undefined, price_low |-> Undefined, price_high |-> Undefined,
     pred_sale_proba |-> Undefined, recommended_reserve |-> Undefined]

PredictAnswer(status, success, message, served, model, input, out) ==
    [phase |-> "done", endpoint |-> calc.endpoint, body |-> calc.body, file |-> calc.file,
     status |-> status, success |-> success, message |-> message,
     \* the dataset whose artifact the handler loaded ("" : none)
     served |-> served, model |-> model, input |-> input, out |-> out]

NoInput == [carat |-> NaN]

\* POST /predict-single
PredictSinglePost ==
    /\ calc.phase = "request" /\ calc.endpoint = "predict-single"
    /\ LET body == calc.body
           carat == JsNumber(body.carat)
           color == StringOr(body.color, "")
       IN calc' =
            CASE body.datasetId = "" ->
                   PredictAnswer(400, FALSE, "datasetId is required", "", "", NoInput, NoPrediction)
              [] body.datasetId = US_DIAMONDS_DATASET_ID ->
                   LET trained == UsTrainedOn(calc.file)
                       model == parseUSDiamondsModelName(body.modelName)
                       depth == JsNumber(body.second)
                       input == [carat |-> carat, depth |-> depth, color |-> color]
                   IN IF ~IsFinite(carat) \/ ~IsFinite(depth) \/ color = ""
                      THEN PredictAnswer(400, FALSE, "Invalid inputs", US_DIAMONDS_DATASET_ID,
                                         model, input, NoPrediction)
                      ELSE PredictAnswer(200, TRUE, "", US_DIAMONDS_DATASET_ID, model, input,
                             predictUSDiamonds(trained, model,
                                [carat |-> carat.v, cut |-> "Ideal", color |-> color,
                                 clarity |-> "VS1", depth |-> depth.v, table |-> 57,
                                 x |-> 4, y |-> 4, z |-> 2])
                             @@ NoPrediction)
              [] OTHER ->
                   LET viewings == JsNumber(body.second)
                       input == [carat |-> carat, viewings |-> viewings, color |-> color]
                   IN IF ~IsFinite(carat) \/ ~IsFinite(viewings) \/ color = ""
                      THEN PredictAnswer(400, FALSE, "Invalid inputs", "", "Linear", input,
                                         NoPrediction)
                      ELSE LET features == [carat |-> carat.v, viewings |-> viewings.v,
                                            price_index |-> 100, color |-> color,
                                            clarity |-> "VS1"]
                               pred_price == predictPrice(AuctionTrained.priceModel, features)
                               pred_prob == predictSaleProba(AuctionTrained.saleModel, features)
                           IN PredictAnswer(200, TRUE, "", STATIC_DATASET_ID, "Linear", input,
                                [predicted_price |-> Num(pred_price),
                                 pred_sale_proba |-> Num(pred_prob),
                                 recommended_reserve |-> Num(recommendedReserve(pred_price, pred_prob))]
                                @@ NoPrediction)
    /\ UNCHANGED <<loaderVars, opt, surf>>

\* POST /predict: the prediction of the first row of the artifact stands for
\* the rows of the response
PredictPost ==
    /\ calc.phase = "request" /\ calc.endpoint = "predict"
    /\ LET body == calc.body
       IN calc' =
            CASE body.datasetId = "" ->
                   PredictAnswer(400, FALSE, "datasetId is required", "", "", NoInput, NoPrediction)
              [] body.datasetId = US_DIAMONDS_DATASET_ID ->
                   LET trained == UsTrainedOn(calc.file)
                       model == parseUSDiamondsModelName(body.modelName)
                       r == ParseUSDiamonds(calc.file).rows[1]
                   IN PredictAnswer(200, TRUE, "", US_DIAMONDS_DATASET_ID, model,
                                    [carat |-> r.carat],
                                    predictUSDiamonds(trained, model,
                                       [carat |-> r.carat.v, cut |-> r.cut, color |-> r.color,
                                        clarity |-> r.clarity, depth |-> r.depth.v,
                                        table |-> r.table.v, x |-> r.x.v, y |-> r.y.v,
                                        z |-> r.z.v])
                                    @@ NoPrediction)
              [] OTHER ->
                   LET r == ParseSyntheticAuction(AuctionCsvGood).rows[1]
                       features == [carat |-> r.carat.v, viewings |-> r.viewings.v,
                                    price_index |-> r.price_index.v, color |-> r.color,
                                    clarity |-> r.clarity]
                       pred_price == predictPrice(AuctionTrained.priceModel, features)
                       pred_prob == predictSaleProba(AuctionTrained.saleModel, features)
                   IN PredictAnswer(200, TRUE, "", STATIC_DATASET_ID, "Linear",
                                    [carat |-> r.carat],
                                    [predicted_price |-> Num(pred_price),
                                     pred_sale_proba |-> Num(pred_prob),
                                     recommended_reserve |-> Num(recommendedReserve(pred_price, pred_prob))]
                                    @@ NoPrediction)
    /\ UNCHANGED <<loaderVars, opt, surf>>

InitPredict ==
    /\ LoaderInit
    /\ files = [d \in Datasets |-> IF d = US_DIAMONDS_DATASET_ID THEN UsCsvGood ELSE AuctionCsvGood]
    /\ opt = [phase |-> "off"]
    /\ surf = [phase |-> "off"]
    /\ \E body \in PredictBodies, file \in {UsCsvGood, UsCsvBadDepth},
          endpoint \in {"predict", "predict-single"} :
          calc = [phase |-> "request", endpoint |-> endpoint, body |-> body, file |-> file]

NextPredict == PredictSinglePost \/ PredictPost

SpecPredict == InitPredict /\ [][NextPredict]_vars

(***************************************************************************)
(* Claims about the prediction endpoints.                                  *)
(***************************************************************************)
\* a numeric body field that carries no number: absent, null, '' or no numeral
NoNumber(field) == field.t # "num"

\* C22: a single-prediction request whose required numeric field is missing,
\* null, empty or non-numeric, or whose required categorical field is missing
\* or empty, is answered 400 'Invalid inputs' and computes no prediction.
C22_InvalidInputsRejected ==
    (/\ calc.phase = "done" /\ calc.endpoint = "predict-single"
     /\ calc.body.datasetId \in Datasets
     /\ \/ NoNumber(calc.body.carat) \/ NoNumber(calc.body.second)
        \/ StringOr(calc.body.color, "") = "")
        => (/\ calc.status = 400 /\ calc.message = "Invalid inputs"
            /\ calc.out = NoPrediction)

\* C25: a us-diamonds prediction has price_high - predicted_price =
\* predicted_price - price_low = z80 * residualStd of the model kind that made
\* the estimate, residualStd >= 0, and price_low <= predicted_price <= price_high.
C25_SymmetricInterval ==
    (/\ calc.phase = "done" /\ calc.success
     /\ calc.body.datasetId = US_DIAMONDS_DATASET_ID)
        => LET trained == UsTrainedOn(calc.file)
               sd == IF calc.model = "RandomForest" THEN trained.rf.residualStd
                      ELSE trained.ridge.residualStd
               p == calc.out.predicted_price
               lo == calc.out.price_low
               hi == calc.out.price_high
           IN /\ sd >= 0
              /\ IsFinite(p) /\ lo.k = "rat" /\ hi.k = "rat"
              /\ hi.num - p.v * hi.den = Z80_MILLI * sd
              /\ p.v * lo.den - lo.num = Z80_MILLI * sd
              /\ lo.num <= p.v * lo.den /\ p.v * hi.den <= hi.num

\* C30: a request to a prediction endpoint whose datasetId is neither built-in
\* dataset is answered with an error and served from no built-in artifact.
C30_UnknownDatasetRejected ==
    (calc.phase = "done" /\ calc.body.datasetId \notin Datasets)
        => (~calc.success /\ calc.status >= 400 /\ calc.served = "")

(***************************************************************************)
(* Claim about the feature values the surface generator hands to a model.  *)
(***************************************************************************)
\* the points of one axis lie in [min, max], start at min and end at max
AxisWithin(pts, range) ==
    /\ pts # <<>>
    /\ \A i \in DOMAIN pts :
          /\ pts[i].k = "rat"
          /\ range.min.v * pts[i].den <= pts[i].num
          /\ pts[i].num <= range.max.v * pts[i].den
    /\ pts[1].num = range.min.v * pts[1].den
    /\ pts[Len(pts)].num = range.max.v * pts[Len(pts)].den

\* C26: every numeric feature value the surface generator passes to a model
\* lies within the trained [min, max] of its feature; each axis starts at min,
\* ends at max and never exceeds max, for every n_points of the request.
C26_GridWithinRange ==
    SurfAnswered
        => (/\ AxisWithin(SurfXs, Lookup(SurfRanges, SurfVarX))
            /\ AxisWithin(SurfYs, Lookup(SurfRanges, SurfVarY)))

(***************************************************************************)
(* The metrics routines (SpecMetrics).  Values are integers; with n the    *)
(* length of yTrue, the sums of squares are kept multiplied by n * n so    *)
(* that the mean needs no division, and r2 and mae are exact fractions.    *)
(***************************************************************************)
\* Math.max(yTrue.length, 1)
LenOrOne(arr) == IF Len(arr) > 1 THEN Len(arr) ELSE 1

\* n * n * ssTot: the sum of (yTrue[i] - mu)^2 with mu = mean(yTrue)
SsTot(yTrue) ==
    SeqSum([i \in DOMAIN yTrue |->
              (LenOrOne(yTrue) * yTrue[i] - SeqSum(yTrue))
                  * (LenOrOne(yTrue) * yTrue[i] - SeqSum(yTrue))])

\* ssRes: the sum of (yTrue[i] - yPred[i])^2
SsRes(yTrue, yPred) ==
    SeqSum([i \in DOMAIN yTrue |-> (yTrue[i] - yPred[i]) * (yTrue[i] - yPred[i])])

\* the sum of Math.abs(yTrue[i] - yPred[i])
SumAbs(yTrue, yPred) == SeqSum([i \in DOMAIN yTrue |-> Abs(yTrue[i] - yPred[i])])

\* syntheticAuction.ts priceMetrics
priceMetrics(yTrue, yPred) ==
    LET n == LenOrOne(yTrue)
    IN [r2 |-> IF SsTot(yTrue) > 0
               THEN Rat(SsTot(yTrue) - n * n * SsRes(yTrue, yPred), SsTot(yTrue))
               ELSE Rat(0, 1),
        mae |-> Rat(SumAbs(yTrue, yPred), n)]

\* r2Mae that divides by ssTot or 1
r2MaeOrOne(yTrue, yPred) ==
    LET n == LenOrOne(yTrue)
        ssTot == IF SsTot(yTrue) > 0 THEN SsTot(yTrue) ELSE 1
    IN [r2 |-> Rat(ssTot - n * n * SsRes(yTrue, yPred), ssTot),
        mae |-> Rat(SumAbs(yTrue, yPred), n)]

\* usDiamonds.ts r2Mae
r2Mae(yTrue, yPred) ==
    LET n == LenOrOne(yTrue)
    IN [r2 |-> IF SsTot(yTrue) > 0
               THEN Rat(SsTot(yTrue) - n * n * SsRes(yTrue, yPred), SsTot(yTrue))
               ELSE Rat(0, 1),
        mae |-> Rat(SumAbs(yTrue, yPred), n)]

MaxTargets == 3
TargetValues == {1, 2, 3}
TargetVectors == UNION {[1..n -> TargetValues] : n \in 0..MaxTargets}

InitMetrics ==
    /\ LoaderInit
    /\ files = [d \in Datasets |-> IF d = US_DIAMONDS_DATASET_ID THEN UsCsvGood ELSE AuctionCsvGood]
    /\ opt = [phase |-> "off"]
    /\ surf = [phase |-> "off"]
    /\ \E yTrue \in TargetVectors, routine \in {"priceMetrics", "r2Mae"} :
         \E yPred \in [DOMAIN yTrue -> TargetValues] :
            calc = [phase |-> "vectors", routine |-> routine, yTrue |-> yTrue, yPred |-> yPred]

MetricsDone(out) ==
    [phase |-> "metrics", routine |-> calc.routine, yTrue |-> calc.yTrue, yPred |-> calc.yPred,
     r2 |-> out.r2, mae |-> out.mae]

PriceMetrics ==
    /\ calc.phase = "vectors" /\ calc.routine = "priceMetrics"
    /\ calc' = MetricsDone(priceMetrics(calc.yTrue, calc.yPred))
    /\ UNCHANGED <<loaderVars, opt, surf>>

R2Mae ==
    /\ calc.phase = "vectors" /\ calc.routine = "r2Mae"
    /\ calc' = MetricsDone(r2Mae(calc.yTrue, calc.yPred))
    /\ UNCHANGED <<loaderVars, opt, surf>>

NextMetrics == PriceMetrics \/ R2Mae

SpecMetrics == InitMetrics /\ [][NextMetrics]_vars

(***************************************************************************)
(* Claims about the metrics routines.                                      *)
(***************************************************************************)
\* the routine ran on predictions equal to the targets
PerfectPredictions == calc.phase = "metrics" /\ calc.yPred = calc.yTrue

\* yTrue holds two different values
Varies(arr) == \E i, j \in DOMAIN arr : arr[i] # arr[j]

\* C23 as stated: for perfect predictions the metrics are r2 = 1 and mae = 0,
\* for every vector yTrue.
C23_PerfectIsOne ==
    PerfectPredictions => (calc.r2.num = calc.r2.den /\ calc.mae.num = 0)

\* C23: for perfect predictions mae = 0, and r2 = 1 when yTrue holds two
\* different values; when yTrue is empty or constant r2 = 0 (the guarded
\* division), whatever the predictions.
C23_PerfectIsOneUnlessConstant ==
    /\ PerfectPredictions
         => (/\ calc.mae.num = 0
             /\ Varies(calc.yTrue) => calc.r2.num = calc.r2.den)
    /\ (calc.phase = "metrics" /\ ~Varies(calc.yTrue)) => calc.r2.num = 0

C23_Witness ==
    /\ PerfectPredictions /\ Varies(calc.yTrue) /\ Len(calc.yTrue) = MaxTargets
    /\ calc.r2.num = calc.r2.den /\ calc.mae.num = 0

(***************************************************************************)
(* solve (SpecSolve).  Arithmetic is exact: a number is a fraction in      *)
(* lowest terms with a positive denominator, so two equal numbers are the  *)
(* same record.  A non-zero quotient by the 1e-12 that stands in for a     *)
(* zero diagonal is tracked only as "huge".                                *)
(***************************************************************************)
RECURSIVE Gcd(_, _)
Gcd(a, b) == IF b = 0 THEN a ELSE Gcd(b, a % b)

\* num / den in lowest terms, den # 0
Q(num, den) ==
    LET g == Gcd(Abs(num), Abs(den))
        sign == IF den < 0 THEN -1 ELSE 1
    IN Rat(sign * (num \div g), sign * (den \div g))

Huge == [k |-> "huge", num |-> 0, den |-> 1]
QZero(a) == a.k = "rat" /\ a.num = 0

QMul(a, b) ==
    CASE QZero(a) \/ QZero(b) -> Q(0, 1)
      [] a.k = "huge" \/ b.k = "huge" -> Huge
      [] OTHER -> Q(a.num * b.num, a.den * b.den)

QSub(a, b) ==
    IF a.k = "huge" \/ b.k = "huge" THEN Huge
    ELSE Q(a.num * b.den - b.num * a.den, a.den * b.den)

QAdd(a, b) ==
    IF a.k = "huge" \/ b.k = "huge" THEN Huge
    ELSE Q(a.num * b.den + b.num * a.den, a.den * b.den)

\* a / (diag || 1e-12)
QDivDiag(a, diag) ==
    CASE QZero(a) -> Q(0, 1)
      [] QZero(diag) \/ a.k = "huge" \/ diag.k = "huge" -> Huge
      [] OTHER -> Q(a.num * diag.den, a.den * diag.num)

\* Math.abs(a) > Math.abs(b)
QAbsGt(a, b) ==
    CASE b.k = "huge" -> FALSE
      [] a.k = "huge" -> TRUE
      [] OTHER -> Abs(a.num) * b.den > Abs(b.num) * a.den

\* the pivot search: rows r..n against the best row so far, replaced only by
\* a strictly larger absolute value
RECURSIVE PivotFrom(_, _, _, _)
PivotFrom(M, col, r, pivot) ==
    IF r > Len(M) THEN pivot
    ELSE PivotFrom(M, col, r + 1, IF QAbsGt(M[r][col], M[pivot][col]) THEN r ELSE pivot)

\* the two destructuring swaps
SwapRows(st, i, j) ==
    [st EXCEPT !.M = [st.M EXCEPT ![i] = st.M[j], ![j] = st.M[i]],
               !.x = [st.x EXCEPT ![i] = st.x[j], ![j] = st.x[i]]]

\* the pivot row divided by its diagonal entry, from the diagonal rightwards
NormalizeRow(st, col) ==
    LET diag == st.M[col][col]
    IN [st EXCEPT !.M[col] = [c \in DOMAIN st.M[col] |->
                                 IF c >= col THEN QDivDiag(st.M[col][c], diag)
                                 ELSE st.M[col][c]],
                  !.x[col] = QDivDiag(st.x[col], diag)]

\* elimination that clears the column under the diagonal only
EliminateBelow(st, col) ==
    [st EXCEPT
       !.M = [r \in DOMAIN st.M |->
                IF r <= col \/ QZero(st.M[r][col]) THEN st.M[r]
                ELSE [c \in DOMAIN st.M[r] |->
                        IF c >= col
                        THEN QSub(st.M[r][c], QMul(st.M[r][col], st.M[col][c]))
                        ELSE st.M[r][c]]],
       !.x = [r \in DOMAIN st.x |->
                IF r <= col \/ QZero(st.M[r][col]) THEN st.x[r]
                ELSE QSub(st.x[r], QMul(st.M[r][col], st.x[col]))]]

\* the column cleared from every other row; a row whose factor is 0 is skipped
Eliminate(st, col) ==
    [st EXCEPT
       !.M = [r \in DOMAIN st.M |->
                IF r = col \/ QZero(st.M[r][col]) THEN st.M[r]
                ELSE [c \in DOMAIN st.M[r] |->
                        IF c >= col
                        THEN QSub(st.M[r][c], QMul(st.M[r][col], st.M[col][c]))
                        ELSE st.M[r][c]]],
       !.x = [r \in DOMAIN st.x |->
                IF r = col \/ QZero(st.M[r][col]) THEN st.x[r]
                ELSE QSub(st.x[r], QMul(st.M[r][col], st.x[col]))]]

\* one turn of the column loop; the trace keeps the column as the pivot
\* search saw it and the row it chose
SolveColumn(st, col) ==
    LET pivot == PivotFrom(st.M, col, col + 1, col)
        seen == [st EXCEPT !.trace = Append(st.trace,
                    [pivot |-> pivot, column |-> [r \in DOMAIN st.M |-> st.M[r][col]]])]
        swapped == IF pivot # col THEN SwapRows(seen, col, pivot) ELSE seen
    IN Eliminate(NormalizeRow(swapped, col), col)

RECURSIVE SolveFrom(_, _)
SolveFrom(st, col) == IF col > Len(st.M) THEN st ELSE SolveFrom(SolveColumn(st, col), col + 1)

\* solve(A, b): the loop runs on the copies M and x; A and b are what the
\* caller's arrays hold when it returns
solve(A, b) ==
    LET out == SolveFrom([M |-> A, x |-> b, trace |-> <<>>], 1)
    IN [x |-> out.x, trace |-> out.trace, A |-> A, b |-> b]

RECURSIVE Det(_)
Det(A) ==
    IF Len(A) = 1 THEN A[1][1]
    ELSE SeqSum([j \in DOMAIN A |->
                   (IF j % 2 = 1 THEN 1 ELSE -1) * A[1][j]
                     * Det([i \in 1..(Len(A) - 1) |->
                              [c \in 1..(Len(A) - 1) |-> A[i + 1][IF c < j THEN c ELSE c + 1]]])])

Dim == 2
MatrixEntries == {-2, 0, 1}
\* the right-hand sides: all ones, 0 1 2 ..., and the first unit vector
RightHandSides ==
    {[i \in 1..Dim |-> 1], [i \in 1..Dim |-> i - 1], [i \in 1..Dim |-> IF i = 1 THEN 1 ELSE 0]}

\* the non-singular matrices over the entries, and the right-hand sides
InitSolve ==
    /\ LoaderInit
    /\ files = [d \in Datasets |-> IF d = US_DIAMONDS_DATASET_ID THEN UsCsvGood ELSE AuctionCsvGood]
    /\ opt = [phase |-> "off"]
    /\ surf = [phase |-> "off"]
    /\ \E A \in [1..Dim -> [1..Dim -> MatrixEntries]], b \in RightHandSides :
         /\ Det(A) # 0
         /\ calc = [phase |-> "system", A |-> A, b |-> b]

Solve ==
    /\ calc.phase = "system"
    /\ LET out == solve([i \in DOMAIN calc.A |-> [j \in DOMAIN calc.A[i] |-> Q(calc.A[i][j], 1)]],
                        [i \in DOMAIN calc.b |-> Q(calc.b[i], 1)])
       IN calc' = [phase |-> "solved", A |-> calc.A, b |-> calc.b,
                   x |-> out.x, trace |-> out.trace, argA |-> out.A, argB |-> out.b]
    /\ UNCHANGED <<loaderVars, opt, surf>>

NextSolve == Solve

SpecSolve == InitSolve /\ [][NextSolve]_vars

(***************************************************************************)
(* Claim about solve.                                                      *)
(***************************************************************************)
RECURSIVE QSum(_)
QSum(s) == IF s = <<>> THEN Q(0, 1) ELSE QAdd(Head(s), QSum(Tail(s)))

\* row i of A times x
RowTimes(A, x, i) == QSum([j \in DOMAIN x |-> QMul(Q(A[i][j], 1), x[j])])

\* C24: for a non-singular square A and a vector b, solve(A, b) returns x with
\* A x = b; at each column the pivot is a row at or below the diagonal whose
\* entry in that column has the largest absolute value among those rows; and
\* the arguments A and b are unchanged when solve returns.
C24_SolveSolves ==
    (calc.phase = "solved" /\ Det(calc.A) # 0)
        => (/\ \A i \in DOMAIN calc.A : RowTimes(calc.A, calc.x, i) = Q(calc.b[i], 1)
            /\ \A col \in DOMAIN calc.trace :
                  /\ calc.trace[col].pivot \in col..Len(calc.A)
                  /\ \A r \in col..Len(calc.A) :
                        ~QAbsGt(calc.trace[col].column[r],
                                calc.trace[col].column[calc.trace[col].pivot])
            /\ calc.argA = [i \in DOMAIN calc.A |-> [j \in DOMAIN calc.A[i] |-> Q(calc.A[i][j], 1)]]
            /\ calc.argB = [i \in DOMAIN calc.b |-> Q(calc.b[i], 1)])

\* a system whose first diagonal entry is 0, solved after a row swap
C24_Witness ==
    /\ calc.phase = "solved" /\ calc.A[1][1] = 0 /\ calc.trace[1].pivot = 2
    /\ \E i \in DOMAIN calc.b : calc.b[i] # 0
    /\ \A i \in DOMAIN calc.A : RowTimes(calc.A, calc.x, i) = Q(calc.b[i], 1)

(***************************************************************************)
(* permutationImportanceRF step by step (SpecPermutation): the row sample, *)
(* then one turn of the feature loop per step, then the normalisation.     *)
(* An error is kept as the sum of squared residuals; dividing every error  *)
(* by the same number of rows does not change a normalised importance.     *)
(***************************************************************************)
\* col[i] = col[k] alone
OverwriteCell(col, i, k) == [col EXCEPT ![i] = col[k]]

\* [col[i], col[k]] = [col[k], col[i]]
SwapCells(col, i, k) == [col EXCEPT ![i] = col[k], ![k] = col[i]]

\* the Fisher-Yates loop from position i down: every array that the draws of
\* Math.random can leave
RECURSIVE ShuffleOutcomes(_, _)
ShuffleOutcomes(col, i) ==
    IF i < 2 THEN {col}
    ELSE UNION {ShuffleOutcomes(SwapCells(col, i, k), i - 1) : k \in 1..i}

\* the sum over the sample of (ys[i] - rf.predict(rows)[i])^2
SquaredError(rf, rows, ys) ==
    SeqSum([i \in DOMAIN ys |->
              (ys[i] - RfPredict(rf, rows[i])) * (ys[i] - RfPredict(rf, rows[i]))])

\* Xs[0]?.length ?? 0
Width(Xs) == IF Xs = <<>> THEN 0 ELSE Len(Xs[1])

MaxRows == 5
MaxSamples == 3
\* encoded rows: the intercept and two features
EncodedRows == {<<1, -1, 0>>, <<1, 1, 0>>, <<1, 1, 1>>}

\* the target of row i is 1000 * i: no two rows share a target
InitPermutation ==
    /\ LoaderInit
    /\ files = [d \in Datasets |-> IF d = US_DIAMONDS_DATASET_ID THEN UsCsvGood ELSE AuctionCsvGood]
    /\ opt = [phase |-> "off"]
    /\ surf = [phase |-> "off"]
    /\ \E n \in 0..MaxRows, maxSamples \in 1..MaxSamples :
         \E X \in [1..n -> EncodedRows] :
            calc = [phase |-> "matrix", X |-> X, y |-> [i \in 1..n |-> 1000 * i],
                    maxSamples |-> maxSamples]

\* Xs, ys and the baseline error; idx is sampleRows of the row numbers
PermutationSample ==
    /\ calc.phase = "matrix"
    /\ LET Xs == sampleRows(calc.X, calc.maxSamples)
           ys == sampleRows(calc.y, calc.maxSamples)
       IN calc' = [phase |-> "sampled", X |-> calc.X, y |-> calc.y,
                   maxSamples |-> calc.maxSamples,
                   Xs |-> Xs, ys |-> ys,
                   idx |-> sampleRows([i \in DOMAIN calc.X |-> i], calc.maxSamples),
                   baseMse |-> SquaredError(UsTrained.rf.rf, Xs, ys),
                   j |-> 0, shuffled |-> <<>>, mse |-> <<>>]
    /\ UNCHANGED <<loaderVars, opt, surf>>

\* one turn of `for (let j = 0; j < (Xs[0]?.length ?? 0); j++)`
PermutationShuffle ==
    /\ calc.phase = "sampled"
    /\ calc.j < Width(calc.Xs)
    /\ LET j == calc.j + 1
           col == [i \in DOMAIN calc.Xs |-> calc.Xs[i][j]]
       IN \E permuted \in ShuffleOutcomes(col, Len(col)) :
            LET shuffled == [i \in DOMAIN calc.Xs |-> [calc.Xs[i] EXCEPT ![j] = permuted[i]]]
            IN calc' = [calc EXCEPT !.j = j, !.shuffled = shuffled,
                                    !.mse = Append(calc.mse,
                                               SquaredError(UsTrained.rf.rf, shuffled, calc.ys))]
    /\ UNCHANGED <<loaderVars, opt, surf>>

\* the loop is over: the normalised importances
PermutationFinish ==
    /\ calc.phase = "sampled"
    /\ calc.j = Width(calc.Xs)
    /\ calc' = [out |-> permutationImportanceRF(calc.baseMse, calc.mse,
                                                 UsTrained.encoder.featureNames)]
                 @@ [calc EXCEPT !.phase = "importance"]
    /\ UNCHANGED <<loaderVars, opt, surf>>

NextPermutation == PermutationSample \/ PermutationShuffle \/ PermutationFinish

SpecPermutation == InitPermutation /\ [][NextPermutation]_vars

(***************************************************************************)
(* Claims about permutation importance.                                    *)
(***************************************************************************)
\* column j of a matrix
ColumnOf(rows, j) == [i \in DOMAIN rows |-> rows[i][j]]

\* two arrays of one length holding the same values the same number of times
SameMultiset(a, b) ==
    /\ Len(a) = Len(b)
    /\ \A i \in DOMAIN a :
          Cardinality({p \in DOMAIN a : a[p] = a[i]}) = Cardinality({p \in DOMAIN b : b[p] = a[i]})

\* C27: the shuffle for feature j leaves a matrix whose column j is a
\* permutation of column j of the sample and whose other columns are those of
\* the sample; the sample, its targets and the baseline error are the same
\* after the shuffle as before it.
C27_ShuffleOneColumn ==
    [][(calc.phase = "sampled" /\ calc'.phase = "sampled")
          => (/\ calc'.j = calc.j + 1
              /\ Len(calc'.shuffled) = Len(calc.Xs)
              /\ SameMultiset(ColumnOf(calc'.shuffled, calc'.j), ColumnOf(calc.Xs, calc'.j))
              /\ \A i \in DOMAIN calc.Xs : \A c \in DOMAIN calc.Xs[i] :
                    c # calc'.j => calc'.shuffled[i][c] = calc.Xs[i][c]
              /\ calc'.Xs = calc.Xs /\ calc'.ys = calc.ys
              /\ calc'.baseMse = calc.baseMse)]_vars

\* a shuffle of the second column that moved a value
C27_Witness ==
    /\ calc.phase = "sampled" /\ calc.j = 2 /\ Len(calc.Xs) = MaxSamples
    /\ calc.shuffled # calc.Xs
    /\ SameMultiset(ColumnOf(calc.shuffled, 2), ColumnOf(calc.Xs, 2))

\* C28: the sample has min(cap, rows) rows, taken at pairwise distinct row
\* numbers in increasing order, and the feature matrix and the targets are
\* sampled at the same row numbers.
C28_SampleKeepsPairs ==
    calc.phase \in {"sampled", "importance"}
        => (/\ Len(calc.Xs) = (IF calc.maxSamples < Len(calc.X) THEN calc.maxSamples ELSE Len(calc.X))
            /\ Len(calc.ys) = Len(calc.Xs) /\ Len(calc.idx) = Len(calc.Xs)
            /\ \A i \in DOMAIN calc.idx : calc.idx[i] \in DOMAIN calc.X
            /\ \A i, k \in DOMAIN calc.idx : i < k => calc.idx[i] < calc.idx[k]
            /\ \A i \in DOMAIN calc.idx :
                  calc.Xs[i] = calc.X[calc.idx[i]] /\ calc.ys[i] = calc.y[calc.idx[i]])

\* a sample of fewer rows than the matrix has, with a row left out in between
C28_Witness ==
    /\ calc.phase = "sampled" /\ Len(calc.X) = MaxRows /\ Len(calc.Xs) = MaxSamples
    /\ \E i \in DOMAIN calc.idx : i > 1 /\ calc.idx[i] > calc.idx[i - 1] + 1
    /\ \A i \in DOMAIN calc.idx : calc.ys[i] = 1000 * calc.idx[i]
====
